---- MODULE Spec2Model ----
(***************************************************************************)
(* Model of the cycle_plan_2 backend: the document collections (routes,    *)
(* votes, reviews, comments, custom points, users, the places cache), the  *)
(* in-process tables (sessions, verification codes) and the HTTP handlers  *)
(* that read and write them.  Each collection is a set of documents; ids   *)
(* are fresh integers standing for the uuid4 strings of the code.          *)
(* avg_rating is kept in tenths (avg_rating10 = 10 * avg_rating), since    *)
(* the code rounds it to one decimal.  Time is counted in seconds.         *)
(***************************************************************************)
EXTENDS Integers, FiniteSets, Sequences, TLC

VARIABLES routes, votes, reviews, comments, custom_points, nextId,
          last, prev, touched, pc, req, loc, overlapped, dupRace,
          users, sessions, connected, issued, regRace,
          poi_cache, verification_cache, now, fetched

vars == <<routes, votes, reviews, comments, custom_points, nextId,
          last, prev, touched, pc, req, loc, overlapped, dupRace,
          users, sessions, connected, issued, regRace,
          poi_cache, verification_cache, now, fetched>>

dbVars == <<routes, votes, reviews, comments, custom_points>>

\* the users collection, the USER_SESSIONS table, the outcome of the
\* connection attempt at startup, and the history kept about tokens and
\* registrations
authVars == <<users, sessions, connected, issued, regRace>>

\* the poi_cache collection, the verification_cache table of email_utils,
\* the wall clock in seconds, and for each cache key the time of the last
\* successful call to the places API
cacheVars == <<poi_cache, verification_cache, now, fetched>>

(* ------------------------------ bounds --------------------------------- *)

MaxRoutes == 1
MaxVotes == 3
MaxReviews == 2
MaxComments == 3
MaxPoints == 1
\* documents created in a run that mixes all the handlers
MaxDocs == 3
\* documents created in a run of the handlers behind verify_session
MaxAuthDocs == 1
MaxUsers == 2
MaxTokens == 3
\* share requests counted on one route
MaxShares == 2

Users == {"u1", "u2"}
Procs == {"p1", "p2"}
Contents == {"a", "b"}
RatingInputs == {0, 2}
VoteInputs == {-1, 1}

RouteIds == 1..MaxRoutes
VoteIds == 1..MaxVotes
ReviewIds == 1..MaxReviews
CommentIds == 1..MaxComments
PointIds == 1..MaxPoints
UserNums == 1..MaxUsers
Tokens == 1..MaxTokens

Usernames == {"ann", "bob"}
\* "pw" is shorter than 8 characters, the other two are not
Passwords == {"pw", "password1", "password2"}

\* email addresses of requests
Emails == {"ann@x", "eve@x"}
\* the address of the registrations in the runs whose handlers do not read
\* the stored address
RegEmail == "ann@x"

\* the value of a missing user (None)
NoUser == ""
\* a request without Authorization header
NoToken == 0
\* what a request can carry as Authorization header
Headers == {NoToken} \cup Tokens

\* parent_id of a top-level comment (None in the code)
NoParent == 0

(* --------------------------- routes collection ------------------------- *)

\* Route.__init__ / Route.to_dict: the document inserted by create_route.
\* The vote counters are not part of it; has_votes tells whether
\* update_route_votes has $set them.
NewRoute(rid, uid, pub) ==
    [route_id |-> rid, user_id |-> uid, is_public |-> pub, share_count |-> 0,
     avg_rating10 |-> 0, review_count |-> 0,
     has_votes |-> FALSE, upvotes |-> 0, downvotes |-> 0, vote_score |-> 0]

\* db.routes.find({'route_id': rid})
RouteDocs(rs, rid) == {d \in rs : d.route_id = rid}

\* Route.get_route_by_id found a document
RouteExists(rs, rid) == RouteDocs(rs, rid) # {}

\* the document Route.get_route_by_id / db.routes.find_one returns
RouteDoc(rs, rid) == CHOOSE d \in RouteDocs(rs, rid) : TRUE

\* route_doc.get('upvotes', 0), .get('downvotes', 0), .get('vote_score', 0)
ReadCounters(rs, rid) ==
    IF RouteExists(rs, rid) /\ RouteDoc(rs, rid).has_votes
    THEN [upvotes |-> RouteDoc(rs, rid).upvotes,
          downvotes |-> RouteDoc(rs, rid).downvotes,
          vote_score |-> RouteDoc(rs, rid).vote_score]
    ELSE [upvotes |-> 0, downvotes |-> 0, vote_score |-> 0]

(* --------------------------- votes collection -------------------------- *)

\* mutant: the vote type is stored as it was sent
NormalizeVoteType_AsSent(vt) == vt

\* vote_type = 1 if vote_type > 0 else -1
NormalizeVoteType(vt) == IF vt > 0 THEN 1 ELSE -1

\* db.votes.find({'route_id': rid, 'user_id': uid})
VotesOf(vs, rid, uid) == {v \in vs : v.route_id = rid /\ v.user_id = uid}

\* db.votes.count_documents({'route_id': rid, 'vote_type': t})
CountVotes(vs, rid, t) ==
    Cardinality({v \in vs : v.route_id = rid /\ v.vote_type = t})

\* mutant: the delete matches no document
VoteDeleteOne_Keep(vs, vid) == vs

\* db.votes.delete_one({'vote_id': vid})
VoteDeleteOne(vs, vid) == {v \in vs : v.vote_id # vid}

\* mutant: the update is applied to every vote document
VoteUpdateOne_AllDocs(vs, vid, t) == {[v EXCEPT !.vote_type = t] : v \in vs}

\* db.votes.update_one({'vote_id': vid}, {'$set': {'vote_type': t}})
VoteUpdateOne(vs, vid, t) ==
    {IF v.vote_id = vid THEN [v EXCEPT !.vote_type = t] ELSE v : v \in vs}

\* Vote(route_id, user_id, vote_type).to_dict()
NewVote(vid, rid, uid, t) ==
    [vote_id |-> vid, route_id |-> rid, user_id |-> uid, vote_type |-> t]

\* mutant: only the score is written
RouteSetVotes_ScoreOnly(rs, rid, up, down) ==
    {IF d.route_id = rid
     THEN [d EXCEPT !.has_votes = TRUE, !.vote_score = up - down]
     ELSE d : d \in rs}

\* mutant: the two counts are stored in each other's field
RouteSetVotes_Swapped(rs, rid, up, down) ==
    {IF d.route_id = rid
     THEN [d EXCEPT !.has_votes = TRUE, !.upvotes = down, !.downvotes = up,
                    !.vote_score = up - down]
     ELSE d : d \in rs}

\* db.routes.update_one({'route_id': rid}, {'$set': {upvotes, downvotes, vote_score}})
RouteSetVotes(rs, rid, up, down) ==
    {IF d.route_id = rid
     THEN [d EXCEPT !.has_votes = TRUE, !.upvotes = up, !.downvotes = down,
                    !.vote_score = up - down]
     ELSE d : d \in rs}

\* mutant: the downvote count repeats the upvote filter
UpdateRouteVotes_SameFilter(rs, vs, rid) ==
    RouteSetVotes(rs, rid, CountVotes(vs, rid, 1), CountVotes(vs, rid, 1))

\* Vote.update_route_votes run without interruption
UpdateRouteVotes(rs, vs, rid) ==
    RouteSetVotes(rs, rid, CountVotes(vs, rid, 1), CountVotes(vs, rid, -1))

\* the value of `vote` / `existing` when there is no vote document (None)
NoVote == [vote_id |-> 0, route_id |-> 0, user_id |-> "", vote_type |-> 0]

\* mutant: the lookup never matches
FindOneVote_NoMatch(vs, rid, uid) == {[found |-> FALSE, doc |-> NoVote]}

\* existing = db.votes.find_one({'route_id': rid, 'user_id': uid}):
\* any matching document, or none when there is no match
FindOneVote(vs, rid, uid) ==
    IF VotesOf(vs, rid, uid) = {}
    THEN {[found |-> FALSE, doc |-> NoVote]}
    ELSE {[found |-> TRUE, doc |-> v] : v \in VotesOf(vs, rid, uid)}

\* Vote.create_or_update_vote run without interruption, for the document
\* ex that find_one returned; vid is the fresh vote_id
VoteCreateOrUpdate(vs, rs, vid, rid, uid, vt, ex) ==
    LET t == NormalizeVoteType(vt) IN
    IF ex.found
    THEN IF ex.doc.vote_type = t
         THEN LET vs2 == VoteDeleteOne(vs, ex.doc.vote_id) IN
              [votes |-> vs2, routes |-> UpdateRouteVotes(rs, vs2, rid),
               inserted |-> FALSE, removed |-> TRUE, vote |-> NoVote]
         ELSE LET vs2 == VoteUpdateOne(vs, ex.doc.vote_id, t) IN
              [votes |-> vs2, routes |-> UpdateRouteVotes(rs, vs2, rid),
               inserted |-> FALSE, removed |-> FALSE,
               vote |-> [ex.doc EXCEPT !.vote_type = t]]
    ELSE LET d == NewVote(vid, rid, uid, t)
             vs2 == vs \cup {d} IN
         [votes |-> vs2, routes |-> UpdateRouteVotes(rs, vs2, rid),
          inserted |-> TRUE, removed |-> FALSE, vote |-> d]

(* ------------------------ ratings and their mean ----------------------- *)

\* rating = max(1, min(5, rating))
ClampRating(r) == IF r < 1 THEN 1 ELSE IF r > 5 THEN 5 ELSE r

\* {'$sum': '$rating'} over a set of documents
RECURSIVE SumRatings(_)
SumRatings(S) ==
    IF S = {} THEN 0
    ELSE LET d == CHOOSE x \in S : TRUE IN d.rating + SumRatings(S \ {d})

\* round(sum / n, 1) in tenths: Python rounds the double to the nearest
\* tenth, an exact half going to the even digit
RoundTenths(sum, n) ==
    LET q == (10 * sum) \div n
        r == (10 * sum) % n
    IN IF 2 * r < n THEN q
       ELSE IF 2 * r > n THEN q + 1
       ELSE IF q % 2 = 0 THEN q ELSE q + 1

\* the $group stage: avg_rating (rounded, in tenths) and count of S;
\* 0 and 0 when the aggregation returns no group
RatingStats(S) ==
    IF S = {} THEN [avg10 |-> 0, count |-> 0]
    ELSE [avg10 |-> RoundTenths(SumRatings(S), Cardinality(S)),
          count |-> Cardinality(S)]

\* db.routes.update_one({'route_id': rid}, {'$set': {avg_rating, review_count}})
RouteSetRating(rs, rid, st) ==
    {IF d.route_id = rid
     THEN [d EXCEPT !.avg_rating10 = st.avg10, !.review_count = st.count]
     ELSE d : d \in rs}

(* --------------------------- reviews collection ------------------------ *)

\* the value of a review when there is none (None)
NoReview == [review_id |-> 0, route_id |-> 0, user_id |-> "", content |-> "",
             rating |-> 0]

\* db.reviews.find({'route_id': rid, 'user_id': uid})
ReviewsOf(rvs, rid, uid) ==
    {v \in rvs : v.route_id = rid /\ v.user_id = uid}

\* db.reviews.find({'route_id': rid}), the $match stage
RouteReviews(rvs, rid) == {v \in rvs : v.route_id = rid}

\* existing = db.reviews.find_one({'route_id': rid, 'user_id': uid})
FindOneReview(rvs, rid, uid) ==
    IF ReviewsOf(rvs, rid, uid) = {}
    THEN {[found |-> FALSE, doc |-> NoReview]}
    ELSE {[found |-> TRUE, doc |-> v] : v \in ReviewsOf(rvs, rid, uid)}

\* mutant: the update sets the content only
ReviewUpdateOne_ContentOnly(rvs, id, content, rating) ==
    {IF v.review_id = id THEN [v EXCEPT !.content = content] ELSE v
       : v \in rvs}

\* db.reviews.update_one({'review_id': id}, {'$set': {content, rating}})
ReviewUpdateOne(rvs, id, content, rating) ==
    {IF v.review_id = id
     THEN [v EXCEPT !.content = content, !.rating = rating]
     ELSE v : v \in rvs}

\* Review.update_route_rating
ReviewUpdateRouteRating(rs, rvs, rid) ==
    RouteSetRating(rs, rid, RatingStats(RouteReviews(rvs, rid)))

\* Review.create_review for the document ex that find_one returned; id is
\* the fresh review_id.  The branch that updates an existing review returns
\* Review.from_dict(existing) without recomputing the route's rating.
ReviewCreate(rvs, rs, id, rid, uid, content, rating, ex) ==
    LET rt == ClampRating(rating) IN
    IF ex.found
    THEN [reviews |-> ReviewUpdateOne(rvs, ex.doc.review_id, content, rt),
          routes |-> rs, inserted |-> FALSE, review |-> ex.doc]
    ELSE LET d == [review_id |-> id, route_id |-> rid, user_id |-> uid,
                   content |-> content, rating |-> rt]
             rvs2 == rvs \cup {d}
         IN [reviews |-> rvs2,
             routes |-> ReviewUpdateRouteRating(rs, rvs2, rid),
             inserted |-> TRUE, review |-> d]

\* db.reviews.delete_one({'review_id': id, 'user_id': uid})
ReviewDeleteOne(rvs, id, uid) ==
    {v \in rvs : ~(v.review_id = id /\ v.user_id = uid)}

\* Review.delete_review
ReviewDelete(rvs, rs, id, uid) ==
    LET found == {v \in rvs : v.review_id = id} IN
    IF found = {}
    THEN [reviews |-> rvs, routes |-> rs, ok |-> FALSE]
    ELSE LET rid == (CHOOSE v \in found : TRUE).route_id
             rvs2 == ReviewDeleteOne(rvs, id, uid)
         IN IF rvs2 # rvs
            THEN [reviews |-> rvs2,
                  routes |-> ReviewUpdateRouteRating(rs, rvs2, rid),
                  ok |-> TRUE]
            ELSE [reviews |-> rvs, routes |-> rs, ok |-> FALSE]

(* --------------------------- comments collection ----------------------- *)

\* Comment(...).to_dict(); content and media_urls do not influence any
\* operation and are left out
NewComment(id, rid, uid, rating, parent) ==
    [comment_id |-> id, route_id |-> rid, user_id |-> uid, rating |-> rating,
     parent_id |-> parent, reply_count |-> 0]

\* db.comments.find_one({'comment_id': id}) found a document
CommentExists(cs, id) == \E c \in cs : c.comment_id = id

\* the document db.comments.find_one({'comment_id': id}) returns
CommentDoc(cs, id) == CHOOSE c \in cs : c.comment_id = id

\* mutant: the counter of the parent is not written
CommentIncReplies_None(cs, id, n) == cs

\* db.comments.update_one({'comment_id': id}, {'$inc': {'reply_count': n}})
CommentIncReplies(cs, id, n) ==
    {IF c.comment_id = id THEN [c EXCEPT !.reply_count = @ + n] ELSE c
       : c \in cs}

\* mutant: the $match stage does not filter on parent_id
TopLevelComments_All(cs, rid) == {c \in cs : c.route_id = rid}

\* the $match stage {'route_id': rid, 'parent_id': None}
TopLevelComments(cs, rid) ==
    {c \in cs : c.route_id = rid /\ c.parent_id = NoParent}

\* Comment.update_route_rating
CommentUpdateRouteRating(rs, cs, rid) ==
    RouteSetRating(rs, rid, RatingStats(TopLevelComments(cs, rid)))

\* Comment.create_comment; id is the fresh comment_id
CommentCreate(cs, rs, id, rid, uid, rating, parent) ==
    LET d == NewComment(id, rid, uid, ClampRating(rating), parent)
        cs2 == cs \cup {d}
    IN IF parent # NoParent
       THEN [comments |-> CommentIncReplies(cs2, parent, 1), routes |-> rs,
             comment |-> d]
       ELSE [comments |-> cs2,
             routes |-> CommentUpdateRouteRating(rs, cs2, rid),
             comment |-> d]

\* mutant: the delete does not filter on user_id
CommentDeleteOne_AnyUser(cs, id, uid) == {c \in cs : c.comment_id # id}

\* db.comments.delete_one({'comment_id': id, 'user_id': uid})
CommentDeleteOne(cs, id, uid) ==
    {c \in cs : ~(c.comment_id = id /\ c.user_id = uid)}

\* mutant: the replies are not deleted
CommentDeleteReplies_None(cs, id) == cs

\* db.comments.delete_many({'parent_id': id})
CommentDeleteReplies(cs, id) == {c \in cs : c.parent_id # id}

\* Comment.delete_comment
CommentDelete(cs, rs, id, uid) ==
    IF ~CommentExists(cs, id)
    THEN [comments |-> cs, routes |-> rs, ok |-> FALSE]
    ELSE LET c == CommentDoc(cs, id)
             cs2 == CommentDeleteOne(cs, id, uid)
             cs3 == IF c.parent_id # NoParent
                    THEN CommentIncReplies(cs2, c.parent_id, -1) ELSE cs2
             cs4 == CommentDeleteReplies(cs3, id)
         IN IF cs2 # cs
            THEN [comments |-> cs4,
                  routes |-> IF c.parent_id = NoParent
                             THEN CommentUpdateRouteRating(rs, cs4, c.route_id)
                             ELSE rs,
                  ok |-> TRUE]
            ELSE [comments |-> cs, routes |-> rs, ok |-> FALSE]

(* ------------------------ places cache (poi.py) ------------------------ *)

\* coordinates sent in a route: dicts with the keys lat and lng
Coordinates == {[lat |-> 1, lng |-> 0], [lat |-> 2, lng |-> 0]}
\* search radius in meters
Radii == {500}
\* category lists of a request
CategoryLists == {<<"eat-drink", "park">>}
\* what a lookup is about: one sampled coordinate, the radius and the
\* categories of the request
LookupKeys == Coordinates \X Radii \X CategoryLists

\* sep.join(strs)
RECURSIVE Join(_, _)
Join(strs, sep) ==
    IF strs = << >> THEN ""
    ELSE IF Len(strs) = 1 THEN Head(strs)
    ELSE Head(strs) \o sep \o Join(Tail(strs), sep)

\* cache_key = f"poi_{lat}_{lng}_{radius}_{'-'.join(categories)}"
CacheKey(coord, radius, cats) ==
    "poi_" \o ToString(coord.lat) \o "_" \o ToString(coord.lng) \o "_"
           \o ToString(radius) \o "_" \o Join(cats, "-")

CacheKeys == {CacheKey(k[1], k[2], k[3]) : k \in LookupKeys}

\* timedelta(hours=24), in seconds
ExpiryHours == 24
ExpirySeconds == ExpiryHours * 3600

\* no document in poi_cache for a key (find_one gives None)
NoEntry == [present |-> FALSE, pois |-> << >>, expiry |-> 0]

\* the result of get_cached_pois: None, or a list
NoList == [none |-> TRUE, pois |-> << >>]

\* POI.get_cached_pois at time t
GetCachedPois(cache, key, t) ==
    IF cache[key].present /\ cache[key].expiry > t
    THEN [none |-> FALSE, pois |-> cache[key].pois]
    ELSE NoList

\* truth value of "if cached_pois:" : neither None nor an empty list
Truthy(c) == ~c.none /\ c.pois # << >>

\* POI.cache_pois at time t: update_one(..., upsert=True)
CachePois(cache, key, pois, t) ==
    [cache EXCEPT ![key] = [present |-> TRUE, pois |-> pois,
                            expiry |-> t + ExpirySeconds]]

\* POI.remove_duplicate_pois: the first place of every id, in order
RECURSIVE RemoveDuplicatePois(_)
RemoveDuplicatePois(pois) ==
    IF pois = << >> THEN << >>
    ELSE LET rest == RemoveDuplicatePois(SubSeq(pois, 1, Len(pois) - 1))
             x == pois[Len(pois)]
         IN IF \E i \in 1..Len(rest) : rest[i] = x THEN rest
            ELSE Append(rest, x)

\* range(start, stop, step) for step > 0
RECURSIVE Range(_, _, _)
Range(start, stop, step) ==
    IF start >= stop THEN << >>
    ELSE <<start>> \o Range(start + step, stop, step)

\* mutant: the end point is not appended
SampleRoutePoints_NoEnd(route_coordinates, max_points) ==
    IF Len(route_coordinates) <= max_points THEN route_coordinates
    ELSE LET n == Len(route_coordinates)
             step == n \div (max_points - 2)
             idx == Range(step, n - 1, step)
         IN <<route_coordinates[1]>>
            \o [i \in 1..Len(idx) |-> route_coordinates[idx[i] + 1]]

\* POI.sample_route_points; Python indexes from 0, sequences here from 1
SampleRoutePoints(route_coordinates, max_points) ==
    IF Len(route_coordinates) <= 2 THEN route_coordinates
    ELSE IF Len(route_coordinates) <= max_points THEN route_coordinates
    ELSE LET n == Len(route_coordinates)
             step == n \div (max_points - 2)
             idx == Range(step, n - 1, step)
         IN <<route_coordinates[1]>>
            \o [i \in 1..Len(idx) |-> route_coordinates[idx[i] + 1]]
            \o <<route_coordinates[n]>>

\* the time of a lookup that never happened
Never == -1

(* ---------------- verification codes (email_utils.py) ----------------- *)

\* codes of generate_code (six digits in the code)
Codes == {"111111", "222222"}

\* no entry in verification_cache, and the None of get_cached_code
NoCode == [code |-> "", ts |-> 0]

\* seconds a code stays valid
CodeSeconds == 300

\* email_utils.get_cached_code at time t: the code, or "" for None
GetCachedCode(vc, email, t) ==
    IF vc[email] # NoCode /\ t - vc[email].ts < CodeSeconds
    THEN vc[email].code ELSE ""

\* email_utils.cache_code at time t
CacheCode(vc, email, code, t) ==
    [vc EXCEPT ![email] = [code |-> code, ts |-> t]]

(* ------------------------------- Init ---------------------------------- *)

Collections == {"routes", "votes", "reviews", "comments", "points",
                "users", "tokens"}

NoRequest == [op |-> "none", status |-> 0]

NoReq == [user |-> "", route |-> 0, vote_type |-> 0]

NoLoc == [found |-> FALSE, doc |-> NoVote, up |-> 0, down |-> 0,
          removed |-> FALSE, vote |-> NoVote]

\* what is remembered of the request before the last one: whether it was a
\* vote request that inserted a new vote, and if so which
Summary(l) ==
    IF l.op = "vote" /\ l.status = 200 /\ ~l.found
    THEN [inserted |-> TRUE, user |-> l.user, route |-> l.route,
          body |-> l.body, before |-> l.before]
    ELSE [inserted |-> FALSE]

Init ==
    /\ routes = {}
    /\ votes = {}
    /\ reviews = {}
    /\ comments = {}
    /\ custom_points = {}
    /\ nextId = [c \in Collections |-> 1]
    /\ last = NoRequest
    /\ prev = Summary(NoRequest)
    /\ touched = {}
    /\ pc = [p \in Procs |-> "idle"]
    /\ req = [p \in Procs |-> NoReq]
    /\ loc = [p \in Procs |-> NoLoc]
    /\ overlapped = [p \in Procs |-> FALSE]
    /\ dupRace = {}
    /\ users = {}
    /\ sessions = [t \in Tokens |-> NoUser]
    /\ connected = TRUE
    /\ issued = [t \in Tokens |-> [user |-> NoUser, out |-> FALSE]]
    /\ regRace = {}
    /\ poi_cache = [k \in CacheKeys |-> NoEntry]
    /\ verification_cache = [e \in Emails |-> NoCode]
    /\ now = 0
    /\ fetched = [k \in LookupKeys |-> Never]

concVars == <<pc, req, loc, overlapped, dupRace>>

\* bookkeeping of a completed request in the one-request-at-a-time runs
Completed(r) == last' = r /\ prev' = Summary(last)

(* ----------------------------- route handlers -------------------------- *)

\* route_controller.create_route -> Route.create_route, while fewer than
\* max routes have been created
CreateRouteWithin(u, pub, max) ==
    /\ nextId["routes"] <= max
    /\ routes' = routes \cup {NewRoute(nextId["routes"], u, pub)}
    /\ nextId' = [nextId EXCEPT !["routes"] = @ + 1]
    /\ Completed([op |-> "create_route", user |-> u,
                  route |-> nextId["routes"], status |-> 200])
    /\ UNCHANGED <<votes, reviews, comments, custom_points, touched, concVars, authVars, cacheVars>>

\* create_route in the runs with MaxRoutes routes
CreateRoute(u, pub) == CreateRouteWithin(u, pub, MaxRoutes)

(* ------------------------------ vote handler --------------------------- *)

\* request bodies of POST /api/votes/routes/<route_id>
VoteBodies ==
    {[has |-> FALSE, vote_type |-> 0]} \cup
    {[has |-> TRUE, vote_type |-> v] : v \in VoteInputs}

\* mutant: every rejection is answered 404
VoteRejected_NotFound(u, rid, body, code) ==
    /\ Completed([op |-> "vote", user |-> u, route |-> rid, body |-> body,
                  status |-> 404])
    /\ UNCHANGED <<dbVars, nextId>>

\* the request failed before any write
VoteRejected(u, rid, body, code) ==
    /\ Completed([op |-> "vote", user |-> u, route |-> rid, body |-> body,
                  status |-> code])
    /\ UNCHANGED <<dbVars, nextId>>

\* vote_controller.create_or_update_vote for an authenticated user u,
\* the whole request as one step
CreateOrUpdateVote(u, rid, body) ==
    /\ IF ~RouteExists(routes, rid) THEN VoteRejected(u, rid, body, 404)
       ELSE IF ~RouteDoc(routes, rid).is_public
            THEN VoteRejected(u, rid, body, 403)
       ELSE IF ~body.has THEN VoteRejected(u, rid, body, 400)
       ELSE \E ex \in FindOneVote(votes, rid, u) :
              /\ ex.found \/ nextId["votes"] <= MaxVotes
              /\ LET r == VoteCreateOrUpdate(votes, routes, nextId["votes"],
                                             rid, u, body.vote_type, ex)
                     c == ReadCounters(r.routes, rid)
                 IN /\ votes' = r.votes
                    /\ routes' = r.routes
                    /\ nextId' = IF r.inserted
                                 THEN [nextId EXCEPT !["votes"] = @ + 1]
                                 ELSE nextId
                    /\ Completed([op |-> "vote", user |-> u, route |-> rid,
                                  body |-> body, status |-> 200,
                                  found |-> ex.found, existing |-> ex.doc,
                                  before |-> ReadCounters(routes, rid),
                                  removed |-> r.removed, vote |-> r.vote,
                                  upvotes |-> c.upvotes,
                                  downvotes |-> c.downvotes,
                                  vote_score |-> c.vote_score])
              /\ UNCHANGED <<reviews, comments, custom_points>>
    /\ UNCHANGED <<touched, concVars, authVars, cacheVars>>

\* one request at a time: routes and votes
NextVote ==
    \/ \E u \in Users, pub \in BOOLEAN : CreateRoute(u, pub)
    \/ \E u \in Users, rid \in RouteIds, body \in VoteBodies :
          CreateOrUpdateVote(u, rid, body)

SpecVote == Init /\ [][NextVote]_vars

\* vote types of requests beyond +1 and -1
VoteTypeInputs == {-2, -1, 0, 1, 2}

\* one request at a time: routes, and votes of any numeric type
NextVoteType ==
    \/ \E u \in Users, pub \in BOOLEAN : CreateRoute(u, pub)
    \/ \E u \in Users, rid \in RouteIds, vt \in VoteTypeInputs :
          CreateOrUpdateVote(u, rid, [has |-> TRUE, vote_type |-> vt])

SpecVoteType == Init /\ [][NextVoteType]_vars

(* ------------------ vote requests, one database call per step --------- *)

\* requests in flight
InFlight == {q \in Procs : pc[q] # "idle"}

\* vote_controller.create_or_update_vote up to the call of the model:
\* verify_session gave u, Route.get_route_by_id is the first database read.
\* A rejected request (404, 403) ends here and changes nothing.
VoteStart(p, u, rid, vt) ==
    /\ pc[p] = "idle"
    /\ RouteExists(routes, rid)
    /\ RouteDoc(routes, rid).is_public
    /\ nextId["votes"] + Cardinality({q \in Procs : pc[q] \in {"find", "write"}})
          <= MaxVotes
    /\ pc' = [pc EXCEPT ![p] = "find"]
    /\ req' = [req EXCEPT ![p] = [user |-> u, route |-> rid,
                                  vote_type |-> NormalizeVoteType(vt)]]
    /\ loc' = [loc EXCEPT ![p] = NoLoc]
    /\ LET same == {q \in InFlight : req[q].route = rid} IN
         /\ overlapped' = [q \in Procs |->
                             IF q = p THEN same # {}
                             ELSE IF q \in same THEN TRUE ELSE overlapped[q]]
         /\ dupRace' = IF \E q \in same : req[q].user = u
                       THEN dupRace \cup {<<rid, u>>} ELSE dupRace
    /\ UNCHANGED <<dbVars, nextId, last, prev, touched>>
    /\ UNCHANGED <<authVars, cacheVars>>

\* existing = db.votes.find_one({'route_id': route_id, 'user_id': user_id})
VoteFind(p) ==
    /\ pc[p] = "find"
    /\ \E ex \in FindOneVote(votes, req[p].route, req[p].user) :
          loc' = [loc EXCEPT ![p].found = ex.found, ![p].doc = ex.doc]
    /\ pc' = [pc EXCEPT ![p] = "write"]
    /\ UNCHANGED <<dbVars, nextId, last, prev, touched, req, overlapped, dupRace>>
    /\ UNCHANGED <<authVars, cacheVars>>

\* the one write on db.votes: delete_one, update_one or insert_one
VoteWrite(p) ==
    /\ pc[p] = "write"
    /\ LET t == req[p].vote_type
           e == loc[p].doc
       IN IF loc[p].found
          THEN IF e.vote_type = t
               THEN /\ votes' = VoteDeleteOne(votes, e.vote_id)
                    /\ loc' = [loc EXCEPT ![p].removed = TRUE]
                    /\ UNCHANGED nextId
               ELSE /\ votes' = VoteUpdateOne(votes, e.vote_id, t)
                    /\ loc' = [loc EXCEPT ![p].vote = [e EXCEPT !.vote_type = t]]
                    /\ UNCHANGED nextId
          ELSE LET d == NewVote(nextId["votes"], req[p].route, req[p].user, t)
               IN /\ votes' = votes \cup {d}
                  /\ loc' = [loc EXCEPT ![p].vote = d]
                  /\ nextId' = [nextId EXCEPT !["votes"] = @ + 1]
    /\ pc' = [pc EXCEPT ![p] = "count_up"]
    /\ UNCHANGED <<routes, reviews, comments, custom_points, last, prev,
                   touched, req, overlapped, dupRace>>
    /\ UNCHANGED <<authVars, cacheVars>>

\* upvotes = db.votes.count_documents({'route_id': route_id, 'vote_type': 1})
VoteCountUp(p) ==
    /\ pc[p] = "count_up"
    /\ loc' = [loc EXCEPT ![p].up = CountVotes(votes, req[p].route, 1)]
    /\ pc' = [pc EXCEPT ![p] = "count_down"]
    /\ UNCHANGED <<dbVars, nextId, last, prev, touched, req, overlapped, dupRace>>
    /\ UNCHANGED <<authVars, cacheVars>>

\* downvotes = db.votes.count_documents({'route_id': route_id, 'vote_type': -1})
VoteCountDown(p) ==
    /\ pc[p] = "count_down"
    /\ loc' = [loc EXCEPT ![p].down = CountVotes(votes, req[p].route, -1)]
    /\ pc' = [pc EXCEPT ![p] = "update"]
    /\ UNCHANGED <<dbVars, nextId, last, prev, touched, req, overlapped, dupRace>>
    /\ UNCHANGED <<authVars, cacheVars>>

\* db.routes.update_one({'route_id': route_id}, {'$set': {...}})
VoteUpdateRoute(p) ==
    /\ pc[p] = "update"
    /\ routes' = RouteSetVotes(routes, req[p].route, loc[p].up, loc[p].down)
    /\ pc' = [pc EXCEPT ![p] = "read"]
    /\ UNCHANGED <<votes, reviews, comments, custom_points, nextId, last,
                   prev, touched, req, loc, overlapped, dupRace>>
    /\ UNCHANGED <<authVars, cacheVars>>

\* route_doc = db.routes.find_one(...) in the controller and the response
VoteRespond(p) ==
    /\ pc[p] = "read"
    /\ pc' = [pc EXCEPT ![p] = "idle"]
    /\ req' = [req EXCEPT ![p] = NoReq]
    /\ loc' = [loc EXCEPT ![p] = NoLoc]
    /\ UNCHANGED <<dbVars, nextId, last, prev, touched, overlapped, dupRace>>
    /\ UNCHANGED <<authVars, cacheVars>>

\* vote requests served concurrently
NextConc ==
    \/ \E u \in Users, pub \in BOOLEAN : CreateRoute(u, pub)
    \/ \E p \in Procs, u \in Users, rid \in RouteIds, vt \in VoteInputs :
          VoteStart(p, u, rid, vt)
    \/ \E p \in Procs : VoteFind(p)
    \/ \E p \in Procs : VoteWrite(p)
    \/ \E p \in Procs : VoteCountUp(p)
    \/ \E p \in Procs : VoteCountDown(p)
    \/ \E p \in Procs : VoteUpdateRoute(p)
    \/ \E p \in Procs : VoteRespond(p)

SpecConc == Init /\ [][NextConc]_vars

(* --------------- route, point, review and comment handlers ------------- *)

\* mutant: the delete does not filter on user_id
RouteDeleteOne_AnyUser(rs, rid, uid) == {d \in rs : d.route_id # rid}

\* db.routes.delete_one({'route_id': rid, 'user_id': uid})
RouteDeleteOne(rs, rid, uid) ==
    {d \in rs : ~(d.route_id = rid /\ d.user_id = uid)}

\* db.routes.update_one({'route_id': rid, 'user_id': uid},
\*                      {'$set': {'is_public': pub}})
RouteSetVisibility(rs, rid, uid, pub) ==
    {IF d.route_id = rid /\ d.user_id = uid
     THEN [d EXCEPT !.is_public = pub] ELSE d : d \in rs}

\* db.custom_points.delete_one({'point_id': pid, 'user_id': uid})
PointDeleteOne(ps, pid, uid) ==
    {d \in ps : ~(d.point_id = pid /\ d.user_id = uid)}

\* route_controller.delete_route -> Route.delete_route:
\* deleted_count > 0, else 404
DeleteRoute(u, rid) ==
    /\ routes' = RouteDeleteOne(routes, rid, u)
    /\ Completed([op |-> "delete_route", user |-> u, route |-> rid,
                  status |-> IF routes' # routes THEN 200 ELSE 404])
    /\ UNCHANGED <<votes, reviews, comments, custom_points, nextId, touched,
                   concVars, authVars, cacheVars>>

\* route_controller.update_route_visibility -> Route.update_route_visibility:
\* modified_count > 0, else 500
UpdateRouteVisibility(u, rid, pub) ==
    /\ routes' = RouteSetVisibility(routes, rid, u, pub)
    /\ Completed([op |-> "update_visibility", user |-> u, route |-> rid,
                  is_public |-> pub,
                  status |-> IF routes' # routes THEN 200 ELSE 500])
    /\ UNCHANGED <<votes, reviews, comments, custom_points, nextId, touched,
                   concVars, authVars, cacheVars>>

\* custom_point_controller.create_custom_point -> CustomPoint.create_point
CreateCustomPoint(u) ==
    /\ nextId["points"] <= MaxPoints
    /\ custom_points' = custom_points \cup
                          {[point_id |-> nextId["points"], user_id |-> u]}
    /\ nextId' = [nextId EXCEPT !["points"] = @ + 1]
    /\ Completed([op |-> "create_point", user |-> u,
                  point |-> nextId["points"], status |-> 200])
    /\ UNCHANGED <<routes, votes, reviews, comments, touched, concVars, authVars, cacheVars>>

\* custom_point_controller.delete_custom_point -> CustomPoint.delete_point
DeleteCustomPoint(u, pid) ==
    /\ custom_points' = PointDeleteOne(custom_points, pid, u)
    /\ Completed([op |-> "delete_point", user |-> u, point |-> pid,
                  status |-> IF custom_points' # custom_points
                             THEN 200 ELSE 404])
    /\ UNCHANGED <<routes, votes, reviews, comments, nextId, touched,
                   concVars, authVars, cacheVars>>

\* review_controller.create_review for an authenticated user u
CreateReview(u, rid, content, rating) ==
    /\ IF ~RouteExists(routes, rid)
       THEN /\ Completed([op |-> "create_review", user |-> u, route |-> rid,
                          status |-> 404])
            /\ UNCHANGED <<routes, reviews, nextId>>
       ELSE \E ex \in FindOneReview(reviews, rid, u) :
              /\ ex.found \/ nextId["reviews"] <= MaxReviews
              /\ LET r == ReviewCreate(reviews, routes, nextId["reviews"],
                                       rid, u, content, rating, ex)
                 IN /\ reviews' = r.reviews
                    /\ routes' = r.routes
                    /\ nextId' = IF r.inserted
                                 THEN [nextId EXCEPT !["reviews"] = @ + 1]
                                 ELSE nextId
                    /\ Completed([op |-> "create_review", user |-> u,
                                  route |-> rid, content |-> content,
                                  rating |-> rating, status |-> 200,
                                  found |-> ex.found, existing |-> ex.doc,
                                  review |-> r.review])
    /\ UNCHANGED <<votes, comments, custom_points, touched, concVars, authVars, cacheVars>>

\* review_controller.delete_review -> Review.delete_review; the route_id of
\* the URL is not used
DeleteReview(u, id) ==
    /\ LET r == ReviewDelete(reviews, routes, id, u)
           found == {v \in reviews : v.review_id = id}
       IN /\ reviews' = r.reviews
          /\ routes' = r.routes
          /\ Completed([op |-> "delete_review", user |-> u, review |-> id,
                        route |-> IF found = {} THEN 0
                                  ELSE (CHOOSE v \in found : TRUE).route_id,
                        status |-> IF r.ok THEN 200 ELSE 404])
    /\ UNCHANGED <<votes, comments, custom_points, nextId, touched, concVars, authVars, cacheVars>>

\* the routes whose comments differ between two states of the collection
RoutesOfChanged(cs, cs2) ==
    {c.route_id : c \in (cs \ cs2) \cup (cs2 \ cs)}

\* comment_controller.create_comment for an authenticated user u;
\* parent is NoParent for a top-level comment
CreateComment(u, rid, rating, parent) ==
    /\ IF ~RouteExists(routes, rid)
          \/ (parent # NoParent /\ ~CommentExists(comments, parent))
       THEN /\ Completed([op |-> "create_comment", user |-> u, route |-> rid,
                          parent |-> parent, status |-> 404])
            /\ UNCHANGED <<routes, comments, nextId, touched>>
       ELSE /\ nextId["comments"] <= MaxComments
            /\ LET r == CommentCreate(comments, routes, nextId["comments"],
                                      rid, u, rating, parent)
               IN /\ comments' = r.comments
                  /\ routes' = r.routes
                  /\ nextId' = [nextId EXCEPT !["comments"] = @ + 1]
                  /\ touched' = touched \cup
                                  RoutesOfChanged(comments, r.comments)
                  /\ Completed([op |-> "create_comment", user |-> u,
                                route |-> rid, parent |-> parent,
                                status |-> 200, comment |-> r.comment])
    /\ UNCHANGED <<votes, reviews, custom_points, concVars, authVars, cacheVars>>

\* comment_controller.delete_comment -> Comment.delete_comment; the route_id
\* of the URL is not used
DeleteComment(u, id) ==
    /\ LET r == CommentDelete(comments, routes, id, u)
           c == IF CommentExists(comments, id) THEN CommentDoc(comments, id)
                ELSE NewComment(0, 0, "", 0, NoParent)
       IN /\ comments' = r.comments
          /\ routes' = r.routes
          /\ touched' = touched \cup RoutesOfChanged(comments, r.comments)
          /\ Completed([op |-> "delete_comment", user |-> u, comment |-> id,
                        route |-> c.route_id, parent |-> c.parent_id,
                        removed |-> Cardinality(comments \ r.comments),
                        status |-> IF r.ok THEN 200 ELSE 404])
    /\ UNCHANGED <<votes, reviews, custom_points, nextId, concVars, authVars, cacheVars>>

\* documents created so far, all collections together
DocsCreated ==
    nextId["routes"] + nextId["points"] + nextId["reviews"]
      + nextId["comments"] + nextId["votes"] - 5

\* one request at a time, all handlers; a request that would create a
\* document is taken only while fewer than MaxDocs have been created
Next ==
    \/ \E u \in Users, pub \in BOOLEAN :
          DocsCreated < MaxDocs /\ CreateRoute(u, pub)
    \/ \E u \in Users, rid \in RouteIds : DeleteRoute(u, rid)
    \/ \E u \in Users, rid \in RouteIds, pub \in BOOLEAN :
          UpdateRouteVisibility(u, rid, pub)
    \/ \E u \in Users : DocsCreated < MaxDocs /\ CreateCustomPoint(u)
    \/ \E u \in Users, pid \in PointIds : DeleteCustomPoint(u, pid)
    \/ \E u \in Users, rid \in RouteIds, c \in Contents, rt \in RatingInputs :
          /\ DocsCreated < MaxDocs \/ ReviewsOf(reviews, rid, u) # {}
          /\ CreateReview(u, rid, c, rt)
    \/ \E u \in Users, id \in ReviewIds : DeleteReview(u, id)
    \/ \E u \in Users, rid \in RouteIds, rt \in RatingInputs,
          parent \in {NoParent} \cup CommentIds :
          DocsCreated < MaxDocs /\ CreateComment(u, rid, rt, parent)
    \/ \E u \in Users, id \in CommentIds : DeleteComment(u, id)
    \/ \E u \in Users, rid \in RouteIds, body \in VoteBodies :
          /\ DocsCreated < MaxDocs \/ VotesOf(votes, rid, u) # {}
          /\ CreateOrUpdateVote(u, rid, body)

Spec == Init /\ [][Next]_vars

\* one request at a time: routes and reviews
NextReview ==
    \/ \E u \in Users, pub \in BOOLEAN : CreateRoute(u, pub)
    \/ \E u \in Users, rid \in RouteIds, c \in Contents, rt \in RatingInputs :
          CreateReview(u, rid, c, rt)
    \/ \E u \in Users, id \in ReviewIds : DeleteReview(u, id)

SpecReview == Init /\ [][NextReview]_vars

\* one request at a time: routes and comments
NextComment ==
    \/ \E u \in Users, pub \in BOOLEAN : CreateRoute(u, pub)
    \/ \E u \in Users, rid \in RouteIds, rt \in RatingInputs,
          parent \in {NoParent} \cup CommentIds :
          CreateComment(u, rid, rt, parent)
    \/ \E u \in Users, id \in CommentIds : DeleteComment(u, id)

SpecComment == Init /\ [][NextComment]_vars

(* ------------------------------ read handlers -------------------------- *)

\* what verify_session(request) gives a read endpoint: a user id, or NoUser
\* for a request without a current session
Callers == Users \cup {NoUser}

\* mutant: any authenticated caller may read a private route
MayView_AnyUser(d, caller) == d.is_public \/ caller # NoUser

\* the test of the read endpoints on route d:
\* not (not route.is_public and (not user_id or user_id != route.user_id))
MayView(d, caller) ==
    d.is_public \/ (caller # NoUser /\ caller = d.user_id)

\* a read request: the response is recorded, nothing is written
Answered(r) ==
    /\ Completed(r)
    /\ UNCHANGED <<dbVars, nextId, touched, concVars, authVars, cacheVars>>

\* status of a read of route rid by caller: 404, 403 or 200
ReadStatus(rs, rid, caller) ==
    IF ~RouteExists(rs, rid) THEN 404
    ELSE IF ~MayView(RouteDoc(rs, rid), caller) THEN 403 ELSE 200

\* route_controller.get_route_by_id
GetRouteById(caller, rid) ==
    LET st == ReadStatus(routes, rid, caller) IN
    Answered([op |-> "get_route", caller |-> caller, route |-> rid,
              status |-> st,
              listed |-> IF st = 200 THEN {rid} ELSE {}])

\* review_controller.get_reviews -> Review.get_reviews_by_route_id
GetReviews(caller, rid) ==
    LET st == ReadStatus(routes, rid, caller) IN
    Answered([op |-> "get_reviews", caller |-> caller, route |-> rid,
              status |-> st,
              docs |-> IF st = 200
                       THEN {v.review_id : v \in RouteReviews(reviews, rid)}
                       ELSE {}])

\* comment_controller.get_comments -> Comment.get_comments_by_route_id with
\* parent_id None
GetComments(caller, rid) ==
    LET st == ReadStatus(routes, rid, caller) IN
    Answered([op |-> "get_comments", caller |-> caller, route |-> rid,
              status |-> st,
              docs |-> IF st = 200
                       THEN {c.comment_id : c \in TopLevelComments(comments, rid)}
                       ELSE {}])

\* db.comments.find({'route_id': rid, 'parent_id': parent})
RepliesOf(cs, rid, parent) ==
    {c \in cs : c.route_id = rid /\ c.parent_id = parent}

\* comment_controller.get_replies
GetReplies(caller, rid, cid) ==
    LET st == ReadStatus(routes, rid, caller)
        st2 == IF st = 200 /\ ~CommentExists(comments, cid) THEN 404 ELSE st
    IN Answered([op |-> "get_replies", caller |-> caller, route |-> rid,
                 comment |-> cid, status |-> st2,
                 docs |-> IF st2 = 200
                          THEN {c.comment_id : c \in RepliesOf(comments, rid, cid)}
                          ELSE {}])

\* db.routes.find({'is_public': True})
PublicRoutes(rs) == {d \in rs : d.is_public}

\* route_controller.get_public_routes, the first page
GetPublicRoutes(caller) ==
    Answered([op |-> "get_public_routes", caller |-> caller, status |-> 200,
              listed |-> {d.route_id : d \in PublicRoutes(routes)},
              total |-> Cardinality(PublicRoutes(routes))])

\* db.routes.find({'user_id': uid})
RoutesOfUser(rs, uid) == {d \in rs : d.user_id = uid}

\* route_controller.get_routes
GetRoutes(caller) ==
    IF caller = NoUser
    THEN Answered([op |-> "get_routes", caller |-> caller, status |-> 401,
                   listed |-> {}])
    ELSE Answered([op |-> "get_routes", caller |-> caller, status |-> 200,
                   listed |-> {d.route_id : d \in RoutesOfUser(routes, caller)}])

\* vote_controller.get_route_votes
GetRouteVotes(caller, rid) ==
    IF ~RouteExists(routes, rid)
    THEN Answered([op |-> "get_votes", caller |-> caller, route |-> rid,
                   status |-> 404])
    ELSE IF ~RouteDoc(routes, rid).is_public
    THEN Answered([op |-> "get_votes", caller |-> caller, route |-> rid,
                   status |-> 403])
    ELSE LET c == ReadCounters(routes, rid)
             mine == IF caller = NoUser THEN {} ELSE VotesOf(votes, rid, caller)
         IN \E uv \in IF mine = {} THEN {0} ELSE {v.vote_type : v \in mine} :
              Answered([op |-> "get_votes", caller |-> caller, route |-> rid,
                        status |-> 200, upvotes |-> c.upvotes,
                        downvotes |-> c.downvotes,
                        vote_score |-> c.vote_score, user_vote |-> uv])

\* one request at a time: routes, comments and the read endpoints
NextRead ==
    \/ \E u \in Users, pub \in BOOLEAN :
          DocsCreated < MaxDocs /\ CreateRoute(u, pub)
    \/ \E u \in Users, rid \in RouteIds, pub \in BOOLEAN :
          UpdateRouteVisibility(u, rid, pub)
    \/ \E u \in Users, rid \in RouteIds, rt \in RatingInputs,
          parent \in {NoParent} \cup CommentIds :
          DocsCreated < MaxDocs /\ CreateComment(u, rid, rt, parent)
    \/ \E c \in Callers, rid \in RouteIds : GetRouteById(c, rid)
    \/ \E c \in Callers, rid \in RouteIds : GetReviews(c, rid)
    \/ \E c \in Callers, rid \in RouteIds : GetComments(c, rid)
    \/ \E c \in Callers, rid \in RouteIds, cid \in CommentIds :
          GetReplies(c, rid, cid)
    \/ \E c \in Callers : GetPublicRoutes(c)
    \/ \E c \in Callers : GetRoutes(c)
    \/ \E c \in Callers, rid \in RouteIds : GetRouteVotes(c, rid)

SpecRead == Init /\ [][NextRead]_vars

(* ------------------- writes by users other than the owner -------------- *)

\* db.routes.update_one({'route_id': rid}, {'$inc': {'share_count': 1}})
RouteIncShares(rs, rid) ==
    {IF d.route_id = rid THEN [d EXCEPT !.share_count = @ + 1] ELSE d
       : d \in rs}

\* route_controller.share_route -> Route.update_share_count, for an
\* authenticated user u
ShareRoute(u, rid) ==
    /\ IF ~RouteExists(routes, rid)
       THEN /\ Completed([op |-> "share", user |-> u, route |-> rid,
                          status |-> 404])
            /\ UNCHANGED routes
       ELSE /\ RouteDoc(routes, rid).share_count < MaxShares
            /\ routes' = RouteIncShares(routes, rid)
            /\ Completed([op |-> "share", user |-> u, route |-> rid,
                          status |-> 200])
    /\ UNCHANGED <<votes, reviews, comments, custom_points, nextId, touched,
                   concVars, authVars, cacheVars>>

\* one request at a time: the endpoints that write on a route someone else
\* may own, and the visibility switch
NextAccess ==
    \/ \E u \in Users, pub \in BOOLEAN :
          DocsCreated < MaxDocs /\ CreateRoute(u, pub)
    \/ \E u \in Users, rid \in RouteIds, pub \in BOOLEAN :
          UpdateRouteVisibility(u, rid, pub)
    \/ \E u \in Users, rid \in RouteIds, c \in Contents, rt \in RatingInputs :
          /\ DocsCreated < MaxDocs \/ ReviewsOf(reviews, rid, u) # {}
          /\ CreateReview(u, rid, c, rt)
    \/ \E u \in Users, rid \in RouteIds, rt \in RatingInputs,
          parent \in {NoParent} \cup CommentIds :
          DocsCreated < MaxDocs /\ CreateComment(u, rid, rt, parent)
    \/ \E u \in Users, rid \in RouteIds : ShareRoute(u, rid)
    \/ \E u \in Users, rid \in RouteIds, body \in VoteBodies :
          /\ DocsCreated < MaxDocs \/ VotesOf(votes, rid, u) # {}
          /\ CreateOrUpdateVote(u, rid, body)
    \/ \E c \in Callers, rid \in RouteIds : GetRouteVotes(c, rid)

SpecAccess == Init /\ [][NextAccess]_vars

(* ------------------------- users and sessions -------------------------- *)

\* user_id of the n-th user document (a uuid4 in the code)
UserId(n) == "u" \o ToString(n)

\* the value of a missing user document (None)
NoUserDoc == [user_id |-> NoUser, username |-> "", password |-> "",
              email |-> ""]

\* User(username, password).to_dict(); the password stands for its hash:
\* check_password_hash(generate_password_hash(p), q) holds exactly if p = q
NewUser(n, name, pw, email) ==
    [user_id |-> UserId(n), username |-> name, password |-> pw,
     email |-> email]

\* len(password)
PasswordLen(pw) == IF pw = "pw" THEN 2 ELSE 9

\* db.users.find({'username': name})
UsersNamed(us, name) == {d \in us : d.username = name}

\* mutant: the lookup never matches
FindOneUser_NoMatch(us, name) == {[found |-> FALSE, doc |-> NoUserDoc]}

\* db.users.find_one({'username': name}): any matching document, or none
FindOneUser(us, name) ==
    IF UsersNamed(us, name) = {}
    THEN {[found |-> FALSE, doc |-> NoUserDoc]}
    ELSE {[found |-> TRUE, doc |-> d] : d \in UsersNamed(us, name)}

\* User.get_user_by_id found a document
UserExists(us, uid) == \E d \in us : d.user_id = uid

\* db.users.update_one({'user_id': uid}, {'$set': {'password_hash': ...}})
UserSetPassword(us, uid, pw) ==
    {IF d.user_id = uid THEN [d EXCEPT !.password = pw] ELSE d : d \in us}

\* mutant: any header authenticates as the user of some session
VerifySession_AnyHeader(ss, us, tok) ==
    IF \E t \in DOMAIN ss : ss[t] # NoUser
    THEN ss[CHOOSE t \in DOMAIN ss : ss[t] # NoUser]
    ELSE IF us # {} THEN (CHOOSE d \in us : TRUE).user_id ELSE NoUser

\* auth_controller.verify_session: the user id of the token, None when the
\* header is missing, the token is not in USER_SESSIONS or the user is gone
VerifySession(ss, us, tok) ==
    IF tok = NoToken \/ ss[tok] = NoUser THEN NoUser
    ELSE IF UserExists(us, ss[tok]) THEN ss[tok] ELSE NoUser

\* USER_SESSIONS[token] = user_id
SessionsPut(ss, tok, uid) == [ss EXCEPT ![tok] = uid]

\* mutant: every token of the user is removed
SessionsDelete_AllOfUser(ss, tok) ==
    [t \in DOMAIN ss |-> IF ss[t] = ss[tok] THEN NoUser ELSE ss[t]]

\* del USER_SESSIONS[token]
SessionsDelete(ss, tok) == [ss EXCEPT ![tok] = NoUser]

\* an authentication request that fails: nothing is written
AuthRejected(op, name, tok, code) ==
    /\ Completed([op |-> op, username |-> name, token |-> tok,
                  user |-> NoUser, status |-> code])
    /\ UNCHANGED <<dbVars, nextId, touched, concVars, authVars, cacheVars>>

\* token = str(uuid.uuid4()); USER_SESSIONS[token] = user_id, with the
\* record of who the token was issued to
IssueToken(uid) ==
    /\ sessions' = SessionsPut(sessions, nextId["tokens"], uid)
    /\ issued' = [issued EXCEPT ![nextId["tokens"]] =
                                  [user |-> uid, out |-> FALSE]]

\* auth_controller.register, the whole request as one step; complete says
\* whether all four fields are present, code_ok whether the code equals the
\* cached one
Register(name, pw, email, complete, code_ok) ==
    IF ~complete THEN AuthRejected("register", name, NoToken, 400)
    ELSE IF ~code_ok THEN AuthRejected("register", name, NoToken, 401)
    ELSE IF UsersNamed(users, name) # {}
         THEN AuthRejected("register", name, NoToken, 400)
    ELSE IF PasswordLen(pw) < 8
         THEN AuthRejected("register", name, NoToken, 400)
    ELSE /\ nextId["users"] <= MaxUsers
         /\ nextId["tokens"] <= MaxTokens
         /\ users' = users \cup {NewUser(nextId["users"], name, pw, email)}
         /\ IssueToken(UserId(nextId["users"]))
         /\ nextId' = [nextId EXCEPT !["users"] = @ + 1, !["tokens"] = @ + 1]
         /\ Completed([op |-> "register", username |-> name,
                       token |-> nextId["tokens"],
                       user |-> UserId(nextId["users"]), status |-> 200])
         /\ UNCHANGED <<dbVars, touched, concVars, connected, regRace,
                        cacheVars>>

\* auth_controller.login
Login(name, pw) ==
    \E ex \in FindOneUser(users, name) :
        IF ~ex.found THEN AuthRejected("login", name, NoToken, 401)
        ELSE IF ex.doc.password # pw
             THEN AuthRejected("login", name, NoToken, 401)
        ELSE /\ nextId["tokens"] <= MaxTokens
             /\ IssueToken(ex.doc.user_id)
             /\ nextId' = [nextId EXCEPT !["tokens"] = @ + 1]
             /\ Completed([op |-> "login", username |-> name,
                           token |-> nextId["tokens"],
                           user |-> ex.doc.user_id, status |-> 200])
             /\ UNCHANGED <<dbVars, touched, concVars, users, connected,
                            regRace, cacheVars>>

\* auth_controller.logout
Logout(tok) ==
    IF tok # NoToken /\ sessions[tok] # NoUser
    THEN /\ sessions' = SessionsDelete(sessions, tok)
         /\ issued' = [issued EXCEPT ![tok].out = TRUE]
         /\ Completed([op |-> "logout", username |-> "", token |-> tok,
                       user |-> sessions[tok], status |-> 200])
         /\ UNCHANGED <<dbVars, nextId, touched, concVars, users, connected,
                        regRace, cacheVars>>
    ELSE AuthRejected("logout", "", tok, 401)

\* auth_controller.reset_password -> User.update_password; email is the
\* address of the request, complete says whether all four fields are
\* present, code_ok whether the code equals the one cached for email
ResetPassword(name, pw, email, complete, code_ok) ==
    IF ~complete THEN AuthRejected("reset_password", name, NoToken, 400)
    ELSE IF PasswordLen(pw) < 8
         THEN AuthRejected("reset_password", name, NoToken, 400)
    ELSE IF ~code_ok THEN AuthRejected("reset_password", name, NoToken, 401)
    ELSE \E ex \in FindOneUser(users, name) :
           IF ~ex.found
           THEN AuthRejected("reset_password", name, NoToken, 404)
           ELSE /\ users' = UserSetPassword(users, ex.doc.user_id, pw)
                /\ Completed([op |-> "reset_password", username |-> name,
                              token |-> NoToken, user |-> ex.doc.user_id,
                              email |-> email, status |-> 200])
                /\ UNCHANGED <<dbVars, nextId, touched, concVars, sessions,
                               connected, issued, regRace, cacheVars>>

(* ------------------ handlers behind verify_session --------------------- *)

\* app.upload_file for an authenticated user u; file_ok says whether the
\* request carries a file with a name of an allowed type.  The file goes to
\* the upload folder, no collection is written.
UploadFile(u, file_ok) ==
    /\ Completed([op |-> "upload", user |-> u,
                  status |-> IF file_ok THEN 200 ELSE 400])
    /\ UNCHANGED <<dbVars, nextId, touched, concVars, authVars, cacheVars>>

\* the answer of every handler when verify_session(request) gives None
Unauthorized(op, tok) ==
    /\ Completed([op |-> op, token |-> tok, status |-> 401])
    /\ UNCHANGED <<dbVars, nextId, touched, concVars, authVars, cacheVars>>

\* user_id = verify_session(request), the first statement of a handler
SessionUser(tok) == VerifySession(sessions, users, tok)

\* one request at a time: registration, logout and every endpoint that
\* writes, each request carrying its header; a request that would create a
\* document is taken while fewer than MaxAuthDocs have been created
NextAuth ==
    \/ \E name \in Usernames, pw \in Passwords, complete, ok \in BOOLEAN :
          Register(name, pw, RegEmail, complete, ok)
    \/ \E tok \in Headers : Logout(tok)
    \/ \E tok \in Headers, pub \in BOOLEAN :
          IF SessionUser(tok) = NoUser
          THEN Unauthorized("create_route", tok)
          ELSE DocsCreated < MaxAuthDocs /\ CreateRoute(SessionUser(tok), pub)
    \/ \E tok \in Headers, rid \in RouteIds :
          IF SessionUser(tok) = NoUser
          THEN Unauthorized("delete_route", tok)
          ELSE DeleteRoute(SessionUser(tok), rid)
    \/ \E tok \in Headers, rid \in RouteIds :
          IF SessionUser(tok) = NoUser
          THEN Unauthorized("share", tok)
          ELSE ShareRoute(SessionUser(tok), rid)
    \/ \E tok \in Headers, rid \in RouteIds, pub \in BOOLEAN :
          IF SessionUser(tok) = NoUser
          THEN Unauthorized("update_visibility", tok)
          ELSE UpdateRouteVisibility(SessionUser(tok), rid, pub)
    \/ \E tok \in Headers :
          IF SessionUser(tok) = NoUser
          THEN Unauthorized("create_point", tok)
          ELSE DocsCreated < MaxAuthDocs /\ CreateCustomPoint(SessionUser(tok))
    \/ \E tok \in Headers, pid \in PointIds :
          IF SessionUser(tok) = NoUser
          THEN Unauthorized("delete_point", tok)
          ELSE DeleteCustomPoint(SessionUser(tok), pid)
    \/ \E tok \in Headers, rid \in RouteIds, c \in Contents,
          rt \in RatingInputs :
          IF SessionUser(tok) = NoUser
          THEN Unauthorized("create_review", tok)
          ELSE /\ \/ DocsCreated < MaxAuthDocs
                  \/ ReviewsOf(reviews, rid, SessionUser(tok)) # {}
               /\ CreateReview(SessionUser(tok), rid, c, rt)
    \/ \E tok \in Headers, id \in ReviewIds :
          IF SessionUser(tok) = NoUser
          THEN Unauthorized("delete_review", tok)
          ELSE DeleteReview(SessionUser(tok), id)
    \/ \E tok \in Headers, rid \in RouteIds, rt \in RatingInputs,
          parent \in {NoParent} \cup CommentIds :
          IF SessionUser(tok) = NoUser
          THEN Unauthorized("create_comment", tok)
          ELSE /\ DocsCreated < MaxAuthDocs
               /\ CreateComment(SessionUser(tok), rid, rt, parent)
    \/ \E tok \in Headers, id \in CommentIds :
          IF SessionUser(tok) = NoUser
          THEN Unauthorized("delete_comment", tok)
          ELSE DeleteComment(SessionUser(tok), id)
    \/ \E tok \in Headers, rid \in RouteIds, body \in VoteBodies :
          IF SessionUser(tok) = NoUser
          THEN Unauthorized("vote", tok)
          ELSE /\ \/ DocsCreated < MaxAuthDocs
                  \/ VotesOf(votes, rid, SessionUser(tok)) # {}
               /\ CreateOrUpdateVote(SessionUser(tok), rid, body)
    \/ \E tok \in Headers, file_ok \in BOOLEAN :
          IF SessionUser(tok) = NoUser
          THEN Unauthorized("upload", tok)
          ELSE UploadFile(SessionUser(tok), file_ok)

SpecAuth == Init /\ [][NextAuth]_vars

\* one request at a time: registration, login, logout, password reset and
\* one endpoint behind verify_session
NextSession ==
    \/ \E name \in Usernames, pw \in Passwords, complete, ok \in BOOLEAN :
          Register(name, pw, RegEmail, complete, ok)
    \/ \E name \in Usernames, pw \in Passwords : Login(name, pw)
    \/ \E tok \in Headers : Logout(tok)
    \/ \E name \in Usernames, pw \in Passwords, complete, ok \in BOOLEAN :
          ResetPassword(name, pw, RegEmail, complete, ok)
    \/ \E tok \in Headers, file_ok \in BOOLEAN :
          IF SessionUser(tok) = NoUser
          THEN Unauthorized("upload", tok)
          ELSE UploadFile(SessionUser(tok), file_ok)

SpecSession == Init /\ [][NextSession]_vars

(* ------------------- the application without database ------------------ *)

Methods == {"GET", "POST", "PUT", "DELETE"}

\* paths under /api/ that clients request
ApiPaths ==
    {"/api/register", "/api/login", "/api/logout", "/api/reset_password",
     "/api/routes/", "/api/routes/public", "/api/routes/1",
     "/api/routes/1/share", "/api/reviews/routes/1", "/api/votes/routes/1",
     "/api/comments/routes/1", "/api/custom-points", "/api/users/profile",
     "/api/poi/categories", "/api/upload"}

\* the state after a startup in which the connection attempt raised: no
\* blueprint is registered, the models have no db, USER_SESSIONS is empty
InitDown ==
    /\ routes = {}
    /\ votes = {}
    /\ reviews = {}
    /\ comments = {}
    /\ custom_points = {}
    /\ nextId = [c \in Collections |-> 1]
    /\ last = NoRequest
    /\ prev = Summary(NoRequest)
    /\ touched = {}
    /\ pc = [p \in Procs |-> "idle"]
    /\ req = [p \in Procs |-> NoReq]
    /\ loc = [p \in Procs |-> NoLoc]
    /\ overlapped = [p \in Procs |-> FALSE]
    /\ dupRace = {}
    /\ users = {}
    /\ sessions = [t \in Tokens |-> NoUser]
    /\ connected = FALSE
    /\ issued = [t \in Tokens |-> [user |-> NoUser, out |-> FALSE]]
    /\ regRace = {}
    /\ poi_cache = [k \in CacheKeys |-> NoEntry]
    /\ verification_cache = [e \in Emails |-> NoCode]
    /\ now = 0
    /\ fetched = [k \in LookupKeys |-> Never]

\* app.database_error, the view of the rule /api/<path:path>
DatabaseError(method, path, tok) ==
    /\ Completed([op |-> "database_error", method |-> method, path |-> path,
                  token |-> tok, status |-> 503, success |-> FALSE])
    /\ UNCHANGED <<dbVars, nextId, touched, concVars, authVars, cacheVars>>

\* the view function the URL map selects when the connection failed: the
\* rule /api/upload (POST) is registered outside the try block and, being
\* static, is matched before the rule /api/<path:path>
ViewDown(method, path) ==
    IF method = "POST" /\ path = "/api/upload" THEN "upload_file"
    ELSE "database_error"

\* a request to a path under /api/ when the connection failed at startup
RequestDown(method, path, tok) ==
    /\ ~connected
    /\ IF ViewDown(method, path) = "upload_file"
       THEN \E file_ok \in BOOLEAN :
              IF SessionUser(tok) = NoUser
              THEN Unauthorized("upload", tok)
              ELSE UploadFile(SessionUser(tok), file_ok)
       ELSE DatabaseError(method, path, tok)

NextDown ==
    \E method \in Methods, path \in ApiPaths, tok \in Headers :
        RequestDown(method, path, tok)

SpecDown == InitDown /\ [][NextDown]_vars

(* ---------------- registration, one database call per step ------------ *)

\* registration requests in flight
Registering == {q \in Procs : pc[q] # "idle"}

\* the response of a registration request of process p
RegRespond(p, code, existed, tok, uid) ==
    /\ last' = [op |-> "register", username |-> req[p].username,
                token |-> tok, user |-> uid, status |-> code,
                existed |-> existed]
    /\ prev' = Summary(last)
    /\ pc' = [pc EXCEPT ![p] = "idle"]
    /\ req' = [req EXCEPT ![p] = NoReq]
    /\ loc' = [loc EXCEPT ![p] = NoLoc]

\* auth_controller.register up to its first database call: the fields are
\* complete and the code is the cached one (a request failing these tests
\* ends without reading the database)
RegStart(p, name, pw) ==
    /\ pc[p] = "idle"
    /\ pc' = [pc EXCEPT ![p] = "reg_check"]
    /\ req' = [req EXCEPT ![p] = [username |-> name, password |-> pw]]
    /\ regRace' = IF \E q \in Registering : req[q].username = name
                  THEN regRace \cup {name} ELSE regRace
    /\ UNCHANGED <<dbVars, nextId, last, prev, touched, loc, overlapped,
                   dupRace, users, sessions, connected, issued, cacheVars>>

\* existing_user = User.get_user_by_username(username), then the test of
\* the password length
RegCheck(p) ==
    /\ pc[p] = "reg_check"
    /\ \E ex \in FindOneUser(users, req[p].username) :
         IF ex.found THEN RegRespond(p, 400, TRUE, NoToken, NoUser)
         ELSE IF PasswordLen(req[p].password) < 8
              THEN RegRespond(p, 400, FALSE, NoToken, NoUser)
         ELSE /\ pc' = [pc EXCEPT ![p] = "reg_find"]
              /\ UNCHANGED <<last, prev, req, loc>>
    /\ UNCHANGED <<dbVars, nextId, touched, overlapped, dupRace, authVars,
                   cacheVars>>

\* User.create_user: if db.users.find_one({'username': username}): return
\* None, which the controller answers with 500
RegFind(p) ==
    /\ pc[p] = "reg_find"
    /\ \E ex \in FindOneUser(users, req[p].username) :
         IF ex.found THEN RegRespond(p, 500, TRUE, NoToken, NoUser)
         ELSE /\ pc' = [pc EXCEPT ![p] = "reg_insert"]
              /\ UNCHANGED <<last, prev, req, loc>>
    /\ UNCHANGED <<dbVars, nextId, touched, overlapped, dupRace, authVars,
                   cacheVars>>

\* User.create_user: db.users.insert_one(user.to_dict())
RegInsert(p) ==
    /\ pc[p] = "reg_insert"
    /\ nextId["users"] <= MaxUsers
    /\ users' = users \cup {NewUser(nextId["users"], req[p].username,
                                    req[p].password, RegEmail)}
    /\ nextId' = [nextId EXCEPT !["users"] = @ + 1]
    /\ req' = [req EXCEPT ![p] = [username |-> req[p].username,
                                  password |-> req[p].password,
                                  user_id |-> UserId(nextId["users"])]]
    /\ pc' = [pc EXCEPT ![p] = "reg_session"]
    /\ UNCHANGED <<dbVars, last, prev, touched, loc, overlapped, dupRace,
                   sessions, connected, issued, regRace, cacheVars>>

\* token = str(uuid.uuid4()); USER_SESSIONS[token] = user.user_id, and the
\* response
RegSession(p) ==
    /\ pc[p] = "reg_session"
    /\ nextId["tokens"] <= MaxTokens
    /\ IssueToken(req[p].user_id)
    /\ nextId' = [nextId EXCEPT !["tokens"] = @ + 1]
    /\ RegRespond(p, 200, FALSE, nextId["tokens"], req[p].user_id)
    /\ UNCHANGED <<dbVars, touched, overlapped, dupRace, users, connected,
                   regRace, cacheVars>>

\* registration requests served concurrently
NextReg ==
    \/ \E p \in Procs, name \in Usernames, pw \in Passwords :
          RegStart(p, name, pw)
    \/ \E p \in Procs : RegCheck(p)
    \/ \E p \in Procs : RegFind(p)
    \/ \E p \in Procs : RegInsert(p)
    \/ \E p \in Procs : RegSession(p)

SpecReg == Init /\ [][NextReg]_vars

(* --------------------- points of interest near a route ----------------- *)

\* clock readings of a run about the places cache: half days, up to
\* MaxHalfDays of them
MaxHalfDays == 2
HalfDay == 12 * 3600

\* routes of a request: one coordinate (refused) or two
PoiRoutes == {<<c>> : c \in Coordinates} \cup (Coordinates \X Coordinates)

\* answers of the places API to one request: 200 with the places found,
\* which may be none, or a failure (another status, or an exception of
\* requests.get), which leaves the loop body without caching
ApiResponses500 == [status |-> 500, items |-> << >>]
ApiResponses == {[status |-> 200, items |-> << >>],
                 [status |-> 200, items |-> <<1>>],
                 ApiResponses500}

\* one turn of the loop of POI.get_pois_near_route for the coordinate
\* coord at time t, r being what the places API answers if it is asked;
\* st carries the cache, the places collected, the lookups for which the
\* API was called and the times of the successful calls
LookupCoord(st, coord, radius, cats, r, t) ==
    LET key == CacheKey(coord, radius, cats)
        cached == GetCachedPois(st.cache, key, t)
        k == <<coord, radius, cats>>
    IN IF Truthy(cached)
       THEN [st EXCEPT !.pois = @ \o cached.pois]
       ELSE IF r.status = 200
            THEN [cache |-> CachePois(st.cache, key, r.items, t),
                  pois |-> st.pois \o r.items,
                  called |-> st.called \cup {k},
                  fetched |-> [st.fetched EXCEPT ![k] = t]]
            ELSE [st EXCEPT !.called = @ \cup {k}]

\* the loop over the sampled coordinates from position i on
RECURSIVE LookupAll(_, _, _, _, _, _, _)
LookupAll(st, sampled, i, radius, cats, resp, t) ==
    IF i > Len(sampled) THEN st
    ELSE LookupAll(LookupCoord(st, sampled[i], radius, cats, resp[i], t),
                   sampled, i + 1, radius, cats, resp, t)

\* poi_controller.get_pois_near_route -> POI.get_pois_near_route; has_key
\* says whether HERE_API_KEY is set, resp[i] is the answer of the places
\* API for the i-th sampled coordinate
GetPoisNearRoute(route, cats, radius, has_key, resp) ==
    LET sampled == SampleRoutePoints(route, 5)
        st0 == [cache |-> poi_cache, pois |-> << >>, called |-> {},
                fetched |-> fetched]
        st == IF has_key
              THEN LookupAll(st0, sampled, 1, radius, cats, resp, now)
              ELSE st0
    IN /\ IF Len(route) < 2
          THEN /\ Completed([op |-> "get_pois_near_route", status |-> 400,
                             route |-> route, categories |-> cats,
                             radius |-> radius, has_key |-> has_key,
                             called |-> {}, pois |-> << >>])
               /\ UNCHANGED <<poi_cache, fetched>>
          ELSE /\ poi_cache' = st.cache
               /\ fetched' = st.fetched
               /\ Completed([op |-> "get_pois_near_route", status |-> 200,
                             route |-> route, categories |-> cats,
                             radius |-> radius, has_key |-> has_key,
                             called |-> st.called,
                             pois |-> RemoveDuplicatePois(st.pois)])
       /\ UNCHANGED <<dbVars, nextId, touched, concVars, authVars,
                      verification_cache, now>>

\* d seconds pass, as long as the clock stays within limit
Tick(d, limit) ==
    /\ now + d <= limit
    /\ now' = now + d
    /\ UNCHANGED <<dbVars, nextId, last, prev, touched, concVars, authVars,
                   poi_cache, verification_cache, fetched>>

\* requests for places, one at a time, while time passes
NextPoi ==
    \/ \E route \in PoiRoutes, cats \in CategoryLists, radius \in Radii :
          \/ \E resp \in [1..Len(route) -> ApiResponses] :
                GetPoisNearRoute(route, cats, radius, TRUE, resp)
          \/ GetPoisNearRoute(route, cats, radius, FALSE,
                              [i \in 1..Len(route) |-> ApiResponses500])
    \/ Tick(HalfDay, MaxHalfDays * HalfDay)

SpecPoi == Init /\ [][NextPoi]_vars

(* ------------------ replies served while comments go ------------------- *)

\* comment_controller.create_comment for a reply, up to the call of
\* Comment.create_comment: the route and the parent are looked up
ReplyStart(p, u, rid, rating, parent) ==
    /\ pc[p] = "idle"
    /\ IF ~RouteExists(routes, rid) \/ ~CommentExists(comments, parent)
       THEN /\ Completed([op |-> "create_comment", user |-> u, route |-> rid,
                          parent |-> parent, status |-> 404])
            /\ UNCHANGED <<pc, req>>
       ELSE /\ pc' = [pc EXCEPT ![p] = "reply_insert"]
            /\ req' = [req EXCEPT ![p] = [user |-> u, route |-> rid,
                                          rating |-> rating,
                                          parent |-> parent]]
            /\ UNCHANGED <<last, prev>>
    /\ UNCHANGED <<dbVars, nextId, touched, loc, overlapped, dupRace,
                   authVars, cacheVars>>

\* Comment.create_comment for the reply: insert_one, the $inc of the
\* parent's reply_count (which matches no document when the parent is
\* gone), and the response
ReplyInsert(p) ==
    /\ pc[p] = "reply_insert"
    /\ nextId["comments"] <= MaxComments
    /\ LET r == CommentCreate(comments, routes, nextId["comments"],
                              req[p].route, req[p].user, req[p].rating,
                              req[p].parent)
       IN /\ comments' = r.comments
          /\ routes' = r.routes
          /\ nextId' = [nextId EXCEPT !["comments"] = @ + 1]
          /\ touched' = touched \cup RoutesOfChanged(comments, r.comments)
          /\ Completed([op |-> "create_comment", user |-> req[p].user,
                        route |-> req[p].route, parent |-> req[p].parent,
                        status |-> 200, comment |-> r.comment])
    /\ pc' = [pc EXCEPT ![p] = "idle"]
    /\ req' = [req EXCEPT ![p] = NoReq]
    /\ UNCHANGED <<votes, reviews, custom_points, loc, overlapped, dupRace,
                   authVars, cacheVars>>

\* the workers that serve replies: one reply in flight at a time
ReplyProcs == {"p1"}

\* top-level comments and deletions as whole requests, replies in two
\* steps, so that a deletion can come between the lookup of a parent and
\* the insertion of the reply
NextReply ==
    \/ \E u \in Users, pub \in BOOLEAN : CreateRoute(u, pub)
    \/ \E u \in Users, rid \in RouteIds, rt \in RatingInputs :
          CreateComment(u, rid, rt, NoParent)
    \/ \E p \in ReplyProcs, u \in Users, rid \in RouteIds,
          rt \in RatingInputs, parent \in CommentIds :
          ReplyStart(p, u, rid, rt, parent)
    \/ \E p \in ReplyProcs : ReplyInsert(p)
    \/ \E u \in Users, id \in CommentIds : DeleteComment(u, id)

SpecReply == Init /\ [][NextReply]_vars

(* --------------- verification codes and password reset ---------------- *)

\* clock readings of a run about verification codes: steps of half the
\* life of a code, up to MaxCodeTicks of them
MaxCodeTicks == 2
CodeTick == CodeSeconds \div 2

\* "not cached_code or cached_code != code" is false: a live code is cached
\* for the address and the request carries it
CodeMatches(email, code) ==
    /\ GetCachedCode(verification_cache, email, now) # ""
    /\ GetCachedCode(verification_cache, email, now) = code

\* auth_controller.send_verification_code; code is what generate_code
\* gives, sent says whether the mail service accepted the message
SendVerificationCode(email, code, sent) ==
    /\ IF GetCachedCode(verification_cache, email, now) # ""
       THEN /\ Completed([op |-> "send_verification_code", email |-> email,
                          status |-> 429])
            /\ UNCHANGED verification_cache
       ELSE IF sent
       THEN /\ verification_cache' =
                  CacheCode(verification_cache, email, code, now)
            /\ Completed([op |-> "send_verification_code", email |-> email,
                          status |-> 200])
       ELSE /\ Completed([op |-> "send_verification_code", email |-> email,
                          status |-> 500])
            /\ UNCHANGED verification_cache
    /\ UNCHANGED <<dbVars, nextId, touched, concVars, authVars, poi_cache,
                   now, fetched>>

\* one request at a time, each with its address and its code, while time
\* passes: codes are requested, users register and passwords are reset
NextReset ==
    \/ \E email \in Emails, code \in Codes, sent \in BOOLEAN :
          SendVerificationCode(email, code, sent)
    \/ \E name \in Usernames, pw \in Passwords, email \in Emails,
          code \in Codes :
          Register(name, pw, email, TRUE, CodeMatches(email, code))
    \/ \E name \in Usernames, pw \in Passwords, email \in Emails,
          code \in Codes, complete \in BOOLEAN :
          ResetPassword(name, pw, email, complete, CodeMatches(email, code))
    \/ Tick(CodeTick, MaxCodeTicks * CodeTick)

SpecReset == Init /\ [][NextReset]_vars

(* ------------------ requests after a route was deleted ---------------- *)

\* routes created in a run in which routes are deleted
MaxDeleteRoutes == 2
DeleteRouteIds == 1..MaxDeleteRoutes

\* one request at a time: two routes can exist, routes are deleted, and
\* votes, reviews and comments are requested for every route id; a request
\* that would create a document is taken while fewer than MaxDocs have been
\* created
NextDelete ==
    \/ \E u \in Users, pub \in BOOLEAN :
          DocsCreated < MaxDocs /\ CreateRouteWithin(u, pub, MaxDeleteRoutes)
    \/ \E u \in Users, rid \in DeleteRouteIds : DeleteRoute(u, rid)
    \/ \E u \in Users, rid \in DeleteRouteIds, c \in Contents,
          rt \in RatingInputs :
          /\ (RouteExists(routes, rid) /\ ReviewsOf(reviews, rid, u) = {})
                => DocsCreated < MaxDocs
          /\ CreateReview(u, rid, c, rt)
    \/ \E u \in Users, id \in ReviewIds : DeleteReview(u, id)
    \/ \E u \in Users, rid \in DeleteRouteIds, rt \in RatingInputs,
          parent \in {NoParent} \cup CommentIds :
          /\ RouteExists(routes, rid) => DocsCreated < MaxDocs
          /\ CreateComment(u, rid, rt, parent)
    \/ \E u \in Users, id \in CommentIds : DeleteComment(u, id)
    \/ \E u \in Users, rid \in DeleteRouteIds, body \in VoteBodies :
          /\ (RouteExists(routes, rid) /\ VotesOf(votes, rid, u) = {})
                => DocsCreated < MaxDocs
          /\ CreateOrUpdateVote(u, rid, body)

SpecDelete == Init /\ [][NextDelete]_vars

(* ---------------------- sampling the points of a route ----------------- *)

\* the longest coordinate list and the largest max_points of a call
MaxSampleLen == 9
MaxSamplePoints == 7

\* coordinate lists of pairwise different points, the empty list included
CoordLists ==
    {[i \in 1..n |-> [lat |-> i, lng |-> k]] :
        n \in 0..MaxSampleLen, k \in 0..1}

\* calls of POI.sample_route_points that wait to be evaluated
SampleCalls ==
    {[op |-> "call_sample_route_points", coords |-> c, max_points |-> m] :
        c \in CoordLists, m \in 3..MaxSamplePoints}

\* the state in which one call of sample_route_points is about to be made
InitSample ==
    /\ routes = {}
    /\ votes = {}
    /\ reviews = {}
    /\ comments = {}
    /\ custom_points = {}
    /\ nextId = [c \in Collections |-> 1]
    /\ last \in SampleCalls
    /\ prev = Summary(NoRequest)
    /\ touched = {}
    /\ pc = [p \in Procs |-> "idle"]
    /\ req = [p \in Procs |-> NoReq]
    /\ loc = [p \in Procs |-> NoLoc]
    /\ overlapped = [p \in Procs |-> FALSE]
    /\ dupRace = {}
    /\ users = {}
    /\ sessions = [t \in Tokens |-> NoUser]
    /\ connected = TRUE
    /\ issued = [t \in Tokens |-> [user |-> NoUser, out |-> FALSE]]
    /\ regRace = {}
    /\ poi_cache = [k \in CacheKeys |-> NoEntry]
    /\ verification_cache = [e \in Emails |-> NoCode]
    /\ now = 0
    /\ fetched = [k \in LookupKeys |-> Never]

\* the call returns
SampleRoute ==
    /\ last.op = "call_sample_route_points"
    /\ Completed([op |-> "sample_route_points", coords |-> last.coords,
                  max_points |-> last.max_points,
                  sampled |-> SampleRoutePoints(last.coords,
                                                last.max_points)])
    /\ UNCHANGED <<dbVars, nextId, touched, concVars, authVars, cacheVars>>

NextSample == SampleRoute

SpecSample == InitSample /\ [][NextSample]_vars

(* ---------------------- claims on sequential voting -------------------- *)

\* the last two requests were the same vote (user, route, vote type), the
\* first of which found no vote of the user on the route
SameVoteTwice ==
    /\ prev.inserted
    /\ last.op = "vote" /\ last.status = 200
    /\ last.user = prev.user /\ last.route = prev.route
    /\ last.body = prev.body

\* C1: two consecutive vote requests of the same type by a user who had no
\* vote on the public route leave no Vote document for (route, user), the
\* second reports the vote as removed, and the route's upvotes, downvotes
\* and vote_score read as they did before the first request.
C1_ToggleOff ==
    SameVoteTwice =>
        /\ VotesOf(votes, last.route, last.user) = {}
        /\ last.removed
        /\ ReadCounters(routes, last.route) = prev.before

\* the toggle-off happened on a route that carries another user's vote
C1_Witness ==
    /\ SameVoteTwice
    /\ last.removed
    /\ prev.before.upvotes + prev.before.downvotes > 0

\* C2: a vote of the opposite type by a user who has a vote on the public
\* route leaves exactly one Vote document for (route, user), with the same
\* vote_id and the opposite vote_type, and changes no other Vote document.
C2_Flip ==
    [][(/\ last'.op = "vote" /\ last'.status = 200
        /\ last'.found /\ ~last'.removed)
       => LET e == last'.existing
              f == [e EXCEPT !.vote_type = 0 - e.vote_type]
          IN /\ e \in votes
             /\ e.user_id = last'.user /\ e.route_id = last'.route
             /\ e.vote_type \in {1, -1}
             /\ VotesOf(votes', last'.route, last'.user) = {f}
             /\ votes' = (votes \ {e}) \cup {f}]_vars

\* a flip happened while another user's vote was on the same route
C2_Witness ==
    /\ last.op = "vote" /\ last.status = 200
    /\ last.found /\ ~last.removed
    /\ last.vote.vote_id = last.existing.vote_id
    /\ \E v \in votes : v.route_id = last.route /\ v.user_id # last.user

\* C3: one request at a time, after every completed vote request the
\* route's upvotes and downvotes equal the numbers of its +1 and -1 Vote
\* documents, and the response carries the stored counters.
C3_CountersMatch ==
    (last.op = "vote" /\ last.status = 200) =>
        /\ RouteExists(routes, last.route)
        /\ LET d == RouteDoc(routes, last.route) IN
             /\ d.has_votes
             /\ d.upvotes = CountVotes(votes, last.route, 1)
             /\ d.downvotes = CountVotes(votes, last.route, -1)
             /\ last.upvotes = d.upvotes
             /\ last.downvotes = d.downvotes
             /\ last.vote_score = d.vote_score

\* a vote request completed on a route with an upvote and a downvote
C3_Witness ==
    /\ last.op = "vote" /\ last.status = 200
    /\ CountVotes(votes, last.route, 1) = 1
    /\ CountVotes(votes, last.route, -1) = 1

(* ---------------------- claims on concurrent voting -------------------- *)

\* the counters of route rid, as read, equal the counts of its documents
CountersMatch(rid) ==
    /\ ReadCounters(routes, rid).upvotes = CountVotes(votes, rid, 1)
    /\ ReadCounters(routes, rid).downvotes = CountVotes(votes, rid, -1)

\* C4 as stated: once all in-flight vote requests have completed, every
\* route's upvotes and downvotes equal the numbers of its +1 and -1 Vote
\* documents, whatever the interleaving of the database calls of requests
\* by different users.
C4_Original ==
    (InFlight = {} /\ dupRace = {}) => \A d \in routes : CountersMatch(d.route_id)

\* C4 amended: when a vote request has written the route's counters and no
\* other vote request on that route was in flight at any time since it
\* started, the route's upvotes and downvotes equal the numbers of its +1
\* and -1 Vote documents.
C4_Amended ==
    \A p \in Procs :
        (pc[p] = "read" /\ ~overlapped[p]) => CountersMatch(req[p].route)

\* an undisturbed request has written the counters of a route that has an
\* upvote and a downvote
C4_Witness ==
    \E p \in Procs :
        /\ pc[p] = "read" /\ ~overlapped[p]
        /\ CountVotes(votes, req[p].route, 1) = 1
        /\ CountVotes(votes, req[p].route, -1) = 1

\* C5 as stated: at most one Vote document per (route, user) in every
\* reachable state, also when two requests of the same user interleave.
C5_Original ==
    \A rid \in RouteIds, u \in Users :
        Cardinality(VotesOf(votes, rid, u)) <= 1

\* C5 amended: at most one Vote document exists per (route, user) pair as
\* long as no two vote requests of that user on that route have been in
\* flight at the same time.
C5_Amended ==
    \A rid \in RouteIds, u \in Users :
        <<rid, u>> \notin dupRace => Cardinality(VotesOf(votes, rid, u)) <= 1

\* a request found the user's earlier vote while a request of another user
\* was in flight, the user's own requests never having overlapped
C5_Witness ==
    \E p \in Procs :
        /\ pc[p] = "write" /\ loc[p].found
        /\ <<req[p].route, req[p].user>> \notin dupRace
        /\ \E q \in InFlight : req[q].user # req[p].user

(* ----------------------- claims on reviews and comments ---------------- *)

\* C6: one request at a time, at most one Review document exists per
\* (route, user) pair, and a create_review by a user who already has a
\* review of the route keeps that review's review_id and replaces its
\* content and rating by the submitted ones (the rating clamped to 1..5),
\* changing no other document.
C6_OneReview ==
    [][/\ \A rid \in RouteIds, u \in Users :
             Cardinality(ReviewsOf(reviews', rid, u)) <= 1
       /\ (last'.op = "create_review" /\ last'.status = 200 /\ last'.found)
          => LET e == last'.existing IN
               /\ e \in reviews
               /\ e.route_id = last'.route /\ e.user_id = last'.user
               /\ reviews' = (reviews \ {e}) \cup
                    {[e EXCEPT !.content = last'.content,
                               !.rating = ClampRating(last'.rating)]}]_vars

\* a second create_review replaced both the content and the rating
C6_Witness ==
    /\ last.op = "create_review" /\ last.status = 200 /\ last.found
    /\ last.existing.content # last.content
    /\ last.existing.rating # ClampRating(last.rating)
    /\ \E v \in reviews : /\ v.review_id = last.existing.review_id
                          /\ v.content = last.content
                          /\ v.rating = ClampRating(last.rating)

\* C7 as stated: on a route that no comment operation touches, after every
\* completed create_review (insert or overwrite) and delete_review the
\* route's review_count is the number of its Review documents and its
\* avg_rating is the mean of their ratings rounded to one decimal (0 when
\* there are none).
C7_Original ==
    (/\ last.op \in {"create_review", "delete_review"}
     /\ last.status = 200
     /\ RouteExists(routes, last.route)
     /\ last.route \notin touched)
    => LET d == RouteDoc(routes, last.route)
           S == {v \in reviews : v.route_id = last.route}
       IN /\ d.review_count = Cardinality(S)
          /\ d.avg_rating10 = IF S = {} THEN 0
                              ELSE RoundTenths(SumRatings(S), Cardinality(S))

\* C8: after a top-level comment is created or deleted the route's
\* avg_rating and review_count are the rounded mean rating and the number
\* of the route's comments without parent (0 and 0 when none remain);
\* creating or deleting a reply leaves the route documents unchanged.
C8_TopLevelRating ==
    [][(last'.op \in {"create_comment", "delete_comment"}
        /\ last'.status = 200)
       => IF last'.parent = NoParent
          THEN RouteExists(routes', last'.route) =>
                 LET d == RouteDoc(routes', last'.route)
                     S == {c \in comments' : /\ c.route_id = last'.route
                                             /\ c.parent_id = NoParent}
                 IN /\ d.review_count = Cardinality(S)
                    /\ d.avg_rating10 =
                         IF S = {} THEN 0
                         ELSE RoundTenths(SumRatings(S), Cardinality(S))
          ELSE routes' = routes]_vars

\* a top-level comment was created on a route that has a reply, and the
\* mean of the top-level ratings is not a whole number
C8_Witness ==
    /\ last.op = "create_comment" /\ last.status = 200
    /\ last.parent = NoParent
    /\ \E c \in comments : c.route_id = last.route /\ c.parent_id # NoParent
    /\ RouteDoc(routes, last.route).review_count = 2
    /\ RouteDoc(routes, last.route).avg_rating10 % 10 # 0

\* C9: deleting a top-level comment by its owner removes that comment and
\* every comment whose parent_id is its id, and changes no other comment
\* document.
C9_Cascade ==
    [][(last'.op = "delete_comment" /\ last'.status = 200
        /\ last'.parent = NoParent)
       => comments' = {c \in comments : /\ c.comment_id # last'.comment
                                        /\ c.parent_id # last'.comment}]_vars

\* a top-level comment was deleted together with a reply while another
\* comment stayed
C9_Witness ==
    /\ last.op = "delete_comment" /\ last.status = 200
    /\ last.parent = NoParent
    /\ last.removed = 2
    /\ comments # {}

(* --------------------------- claims on ownership ----------------------- *)

\* the request of this step asks to delete (or change the visibility of) a
\* document that exists and belongs to another user
NonOwnerRequest ==
    \/ /\ last'.op \in {"delete_route", "update_visibility"}
       /\ \E d \in routes : d.route_id = last'.route /\ d.user_id # last'.user
    \/ /\ last'.op = "delete_point"
       /\ \E d \in custom_points :
             d.point_id = last'.point /\ d.user_id # last'.user
    \/ /\ last'.op = "delete_review"
       /\ \E d \in reviews :
             d.review_id = last'.review /\ d.user_id # last'.user
    \/ /\ last'.op = "delete_comment"
       /\ \E d \in comments :
             d.comment_id = last'.comment /\ d.user_id # last'.user

\* C10: a delete of a route, custom point, review or comment, or a
\* visibility update of a route, requested by a user who is not the owner
\* reports failure and leaves every collection unchanged.
C10_NonOwner ==
    [][NonOwnerRequest => (last'.status # 200 /\ UNCHANGED dbVars)]_vars

\* a non-owner asked to delete a comment that has a reply, and the comment
\* is still there
C10_Witness ==
    /\ last.op = "delete_comment" /\ last.status = 404
    /\ \E c \in comments : /\ c.comment_id = last.comment
                           /\ c.user_id # last.user
                           /\ c.reply_count = 1
                           /\ \E r \in comments : r.parent_id = c.comment_id

(* --------------------------- claims on visibility ---------------------- *)

\* the caller of the last request is not the owner of route d (an
\* unauthenticated caller is NoUser and owns nothing)
NotOwner(d) == last.caller # d.user_id

\* C11: for a private route, get_route_by_id, get_reviews, get_comments and
\* get_replies answer 403 to every caller who is unauthenticated or is not
\* the owner; get_public_routes never lists it; get_routes lists it only
\* for its owner.
C11_PrivateReads ==
    \A d \in routes :
        ~d.is_public =>
          /\ (/\ last.op \in {"get_route", "get_reviews", "get_comments",
                              "get_replies"}
              /\ last.route = d.route_id
              /\ NotOwner(d))
             => last.status = 403
          /\ last.op = "get_public_routes" => d.route_id \notin last.listed
          /\ (last.op = "get_routes" /\ d.route_id \in last.listed)
             => last.caller = d.user_id

\* another user asked for the replies of an existing comment on a private
\* route and was refused
C11_Witness ==
    /\ last.op = "get_replies" /\ last.status = 403
    /\ last.caller # NoUser
    /\ CommentExists(comments, last.comment)
    /\ \E d \in routes : /\ d.route_id = last.route /\ ~d.is_public
                         /\ d.user_id # last.caller

\* the request of this step is a write on a private route by a user who
\* does not own it
NonOwnerPrivateWrite ==
    /\ last'.op \in {"create_review", "create_comment", "vote", "share"}
    /\ \E d \in routes : /\ d.route_id = last'.route
                         /\ ~d.is_public
                         /\ d.user_id # last'.user

\* C12 as stated: a user who does not own a private route cannot create a
\* review, a comment or a reply on it, vote on it or share it; the request
\* is rejected and leaves the reviews, comments and votes collections and
\* the route's share_count, rating and vote counters unchanged.
C12_Original ==
    [][NonOwnerPrivateWrite
       => /\ last'.status # 200
          /\ UNCHANGED <<reviews, comments, votes, routes>>]_vars

\* the request of this step is a vote on a private route
PrivateVote ==
    /\ last'.op = "vote"
    /\ \E d \in routes : d.route_id = last'.route /\ ~d.is_public

\* the request of this step reads the votes of a private route
PrivateGetVotes ==
    /\ last'.op = "get_votes"
    /\ \E d \in routes : d.route_id = last'.route /\ ~d.is_public

\* C13: a vote request on a private route is answered 403 for every user,
\* the owner included, and changes neither the votes collection nor the
\* route's vote counters; get_route_votes on a private route is answered
\* 403 as well.
C13_PrivateVote ==
    [][/\ PrivateVote => (last'.status = 403 /\ UNCHANGED <<votes, routes>>)
       /\ PrivateGetVotes => last'.status = 403]_vars

\* the owner voted on the route after making it private, the route
\* carrying a vote from the time it was public
C13_Witness ==
    /\ last.op = "vote" /\ last.status = 403
    /\ \E d \in routes : /\ d.route_id = last.route /\ ~d.is_public
                         /\ d.user_id = last.user
                         /\ d.has_votes /\ d.upvotes + d.downvotes > 0

(* ------------------------- claims on comment threads ------------------- *)

\* the existing comments whose parent_id is id
ChildrenOf(id) == {r \in comments : r.parent_id = id}

\* C14: one request at a time, every existing comment's reply_count equals
\* the number of existing comments whose parent_id is that comment's id,
\* and is never negative.
C14_ReplyCount ==
    \A c \in comments :
        /\ c.reply_count = Cardinality(ChildrenOf(c.comment_id))
        /\ c.reply_count >= 0

\* one of two replies was deleted and the parent counts the one that stays
C14_Witness ==
    /\ last.op = "delete_comment" /\ last.status = 200
    /\ last.parent # NoParent
    /\ \E c \in comments : /\ c.comment_id = last.parent
                           /\ c.reply_count = 1

\* C15 as stated: every comment with a parent_id has a parent that exists
\* and is itself a top-level comment; a reply to a reply never produces a
\* second nesting level.
C15_Original ==
    \A c \in comments :
        c.parent_id # NoParent =>
            \E q \in comments : /\ q.comment_id = c.parent_id
                                /\ q.parent_id = NoParent

(* --------------------------- claims on sessions ------------------------ *)

\* the endpoints that write and require authentication
MutatingOps ==
    {"create_route", "delete_route", "share", "update_visibility",
     "create_point", "delete_point", "create_review", "delete_review",
     "create_comment", "delete_comment", "vote", "upload"}

\* the header tok is missing or is not a token of the session table
NotCurrent(tok) == tok = NoToken \/ sessions[tok] = NoUser

\* user uid exists and some token of the session table maps to uid
HasSession(uid) ==
    /\ uid # NoUser
    /\ \E d \in users : d.user_id = uid
    /\ \E t \in Tokens : sessions[t] = uid

\* C16: every endpoint that writes answers 401 to a request whose
\* Authorization header is missing or is not a current session token, and
\* then changes no collection and no session; a request that is answered
\* otherwise acted for a user whom a current session token maps to.
C16_Unauthenticated ==
    [][last'.op \in MutatingOps
       => IF last'.status = 401
          THEN /\ NotCurrent(last'.token)
               /\ UNCHANGED <<dbVars, users, sessions>>
          ELSE HasSession(last'.user)]_vars

\* a token that had been logged out was presented to delete an existing
\* route and the route is still there
C16_Witness ==
    /\ last.op = "delete_route" /\ last.status = 401
    /\ last.token # NoToken
    /\ issued[last.token].out
    /\ routes # {}

\* C17: a token issued by a login or registration authenticates as exactly
\* the user it was issued to, whatever other logins, logouts of other
\* tokens and password resets happen, until a logout presents it; from then
\* on it never authenticates; a logout removes only the token it presents.
C17_TokenLifecycle ==
    [][/\ \A t \in Tokens :
            issued'[t].user # NoUser =>
                VerifySession(sessions', users', t) =
                    IF issued'[t].out THEN NoUser ELSE issued'[t].user
       /\ (last'.op = "logout" /\ last'.status = 200)
          => \A t \in Tokens \ {last'.token} : sessions'[t] = sessions[t]
       /\ last'.op = "upload"
          => IF last'.status = 401
             THEN \/ last'.token = NoToken
                  \/ issued[last'.token].user = NoUser
                  \/ issued[last'.token].out
             ELSE \E t \in Tokens : /\ issued[t].user = last'.user
                                    /\ ~issued[t].out]_vars

\* one of two tokens of a user was logged out and the other token still
\* authenticates as that user, a second user holding a token as well
C17_Witness ==
    /\ last.op = "logout" /\ last.status = 200
    /\ \E t \in Tokens \ {last.token} :
          /\ issued[t].user = last.user
          /\ ~issued[t].out
          /\ VerifySession(sessions, users, t) = last.user
    /\ \E t \in Tokens : issued[t].user \notin {NoUser, last.user}

(* ---------------------- claims on the failed startup ------------------- *)

\* C18 as stated: when the database connection failed at startup, every
\* GET, POST, PUT or DELETE request to a path under /api/, /api/upload
\* included, is answered by the fallback handler with status 503 and
\* success false.
C18_Original ==
    (~connected /\ last.op # "none") =>
        /\ last.op = "database_error"
        /\ last.status = 503

(* ------------------------- claims on registration ---------------------- *)

\* C19 as stated: no two User documents share a username in any reachable
\* state, also when two registration requests for the same username
\* interleave between the existence check and the insert.
C19_Original ==
    \A name \in Usernames : Cardinality(UsersNamed(users, name)) <= 1

\* process p makes in this step one of its two existence checks and the
\* username of its request exists
ChecksExisting(p) ==
    /\ pc[p] \in {"reg_check", "reg_find"}
    /\ pc'[p] # pc[p]
    /\ \E d \in users : d.username = req[p].username

\* C19 amended: no two User documents share a username as long as no two
\* registration requests for that username have been in flight at the same
\* time; a registration that finds its username in one of its two
\* existence checks fails (400 from register, 500 when User.create_user
\* returns None) and creates neither a user nor a session.
C19_Amended ==
    [][/\ \A name \in Usernames :
            name \notin regRace' =>
                Cardinality({d \in users' : d.username = name}) <= 1
       /\ \A p \in Procs :
            ChecksExisting(p) =>
                /\ pc'[p] = "idle"
                /\ last'.op = "register" /\ last'.status \in {400, 500}
                /\ UNCHANGED <<users, sessions>>]_vars

\* a registration for a username that exists was refused while a
\* registration for another username was in flight, no two requests for
\* one username ever having overlapped
C19_Witness ==
    /\ last.op = "register" /\ last.status = 400 /\ last.existed
    /\ regRace = {}
    /\ \E q \in Procs : /\ pc[q] \in {"reg_find", "reg_insert"}
                        /\ req[q].username # last.username

(* ------------------- claims on the status of a refusal ----------------- *)

\* C20 as stated: a delete of a route, custom point, review or comment, or
\* a visibility update of a route, requested by an authenticated user who
\* does not own the target is answered with status 403, not 404 or 500.
C20_Original ==
    [][NonOwnerRequest => last'.status = 403]_vars

(* ------------------------ claims on the places cache -------------------- *)

\* the lookups of the request that is answered in this step
LookupsOf(l) ==
    {<<l.route[i], l.radius, l.categories>> : i \in 1..Len(l.route)}

\* C21: once the places API has answered a lookup successfully, a request
\* within the following 24 hours does not call the API for that lookup,
\* whatever the result was; a request after the 24 hours calls it again and
\* the entry is refreshed.
C21_Original ==
    [][(last'.op = "get_pois_near_route" /\ last'.status = 200
        /\ last'.has_key /\ last' # last)
       => \A k \in LookupsOf(last') :
             /\ (fetched[k] # Never /\ now < fetched[k] + ExpirySeconds)
                   => k \notin last'.called
             /\ (fetched[k] # Never /\ now >= fetched[k] + ExpirySeconds)
                   => k \in last'.called]_vars

(* -------------------- claims on the type of a vote --------------------- *)

\* C22: every stored vote has vote_type +1 or -1; a request with a positive
\* vote_type acts as an upvote and one with zero or a negative vote_type as
\* a downvote: with no vote of the user it stores that value, with a vote of
\* that value it removes the vote, with a vote of the other value it
\* overwrites it.
C22_VoteType ==
    [][/\ \A v \in votes' : v.vote_type \in {1, -1}
       /\ (last'.op = "vote" /\ last'.status = 200)
          => LET n == IF last'.body.vote_type > 0 THEN 1 ELSE -1
                 e == last'.existing
             IN IF ~last'.found
                THEN \E v \in votes' \ votes :
                        /\ v.user_id = last'.user /\ v.route_id = last'.route
                        /\ v.vote_type = n
                ELSE IF e.vote_type = n
                     THEN last'.removed /\ votes' = votes \ {e}
                     ELSE /\ ~last'.removed
                          /\ votes' = (votes \ {e})
                                      \cup {[e EXCEPT !.vote_type = n]}]_vars

\* a vote sent with type 2 was stored, and the same user's next request,
\* sent with type 1, removed it
C22_Witness ==
    /\ prev.inserted /\ prev.body.vote_type = 2
    /\ last.op = "vote" /\ last.status = 200
    /\ last.user = prev.user /\ last.route = prev.route
    /\ last.body.vote_type = 1
    /\ last.found /\ last.removed

(* ------------------ claims on the three vote counters ------------------ *)

\* C23: in every state, also while vote requests interleave, a route that
\* carries vote counters has vote_score = upvotes - downvotes, with
\* upvotes >= 0 and downvotes >= 0.
C23_ScoreIsDifference ==
    \A d \in routes :
        d.has_votes => /\ d.vote_score = d.upvotes - d.downvotes
                       /\ d.upvotes >= 0
                       /\ d.downvotes >= 0

\* all requests have ended, two of them overlapped, and the counters of a
\* route are not the counts of its votes, with a score other than 0
C23_Witness ==
    /\ \A p \in Procs : pc[p] = "idle"
    /\ \E p \in Procs : overlapped[p]
    /\ \E d \in routes :
          /\ d.has_votes /\ d.vote_score # 0
          /\ d.upvotes # CountVotes(votes, d.route_id, 1)

(* ------------- claims on reviews and comments of one route ------------- *)

\* C24: after every completed request the review_count of a route is the
\* number of its Review documents, and a request that creates or deletes a
\* comment leaves the review_count and the avg_rating of every route as
\* they were.
C24_Original ==
    [][/\ \A d \in routes' :
             d.review_count = Cardinality(RouteReviews(reviews', d.route_id))
       /\ (last'.op \in {"create_comment", "delete_comment"}
           /\ last'.status = 200)
          => \A d \in routes : \E e \in routes' :
                /\ e.route_id = d.route_id
                /\ e.review_count = d.review_count
                /\ e.avg_rating10 = d.avg_rating10]_vars

\* C25: the review in the response of a successful create_review has the
\* content and the rating stored for (route, user) after the request, for
\* an insert and for an overwrite.
C25_Original ==
    (last.op = "create_review" /\ last.status = 200)
    => \E v \in ReviewsOf(reviews, last.route, last.user) :
          /\ v.review_id = last.review.review_id
          /\ v.content = last.review.content
          /\ v.rating = last.review.rating

(* ------------------- claims on the owner's requests -------------------- *)

\* C26: a visibility update by the owner of the route reports success and
\* leaves is_public as requested, also when the route already has the
\* requested visibility.
C26_Original ==
    [][(/\ last'.op = "update_visibility"
        /\ \E d \in routes : /\ d.route_id = last'.route
                             /\ d.user_id = last'.user)
       => /\ last'.status = 200
          /\ RouteDoc(routes', last'.route).is_public = last'.is_public]_vars

(* ------------------------ claims on orphaned replies -------------------- *)

\* C27: every comment with a parent_id refers to a comment that exists,
\* after any sequence of comment creations and deletions, also when the
\* creation of a reply interleaves with the deletion of its parent.
C27_Original ==
    \A c \in comments :
        c.parent_id # NoParent => CommentExists(comments, c.parent_id)

(* ----------------------- claims on password reset ----------------------- *)

\* C28: the password of a user changes only in a reset_password request
\* whose email is the address registered for that user and for which a
\* live verification code is cached; a code for another address does not
\* allow it.
C28_Original ==
    [][\A u \in users :
          (\E v \in users' : /\ v.user_id = u.user_id
                            /\ v.password # u.password)
          => /\ last'.op = "reset_password"
             /\ last'.email = u.email
             /\ GetCachedCode(verification_cache, u.email, now) # ""]_vars

(* ------------------- claims on the deletion of a route ------------------ *)

\* the route id was given to a route that exists no more
Deleted(rid) == rid < nextId["routes"] /\ ~RouteExists(routes, rid)

\* the owner's delete_route removes the one route document and nothing else
DeleteRemovesOneRoute ==
    (last'.op = "delete_route" /\ last'.status = 200)
    => /\ \E d \in routes : /\ d.route_id = last'.route
                            /\ d.user_id = last'.user
                            /\ routes' = routes \ {d}
       /\ UNCHANGED <<votes, reviews, comments, custom_points>>

\* C29 as stated: the owner's delete_route removes exactly the route
\* document, leaving every other route and every vote, review and comment
\* as it was, and every later vote, review or comment request for the
\* deleted route id is answered 404 and changes no collection.
C29_Original ==
    [][/\ DeleteRemovesOneRoute
       /\ (/\ last'.op \in {"vote", "create_review", "delete_review",
                            "create_comment", "delete_comment"}
           /\ Deleted(last'.route))
          => (last'.status = 404 /\ UNCHANGED dbVars)]_vars

\* C29, amended: the owner's delete_route removes exactly the route
\* document, leaving every other route and every vote, review and comment
\* as it was, and every later request to vote on, review or comment on the
\* deleted route id is answered 404 and changes no collection.
C29_Amended ==
    [][/\ DeleteRemovesOneRoute
       /\ (/\ last'.op \in {"vote", "create_review", "create_comment"}
           /\ Deleted(last'.route))
          => (last'.status = 404 /\ UNCHANGED dbVars)]_vars

\* a review was requested for a deleted route that still has a review,
\* while another route exists, and was answered 404
C29_Witness ==
    /\ last.op = "create_review" /\ last.status = 404
    /\ Deleted(last.route)
    /\ \E v \in reviews : v.route_id = last.route
    /\ routes # {}

(* -------------------- claims on sample_route_points -------------------- *)

\* every element of r is an element of c, and elements that follow each
\* other in r follow each other in c (c has no element twice)
InOrder(r, c) ==
    /\ \A i \in 1..Len(r) : \E j \in 1..Len(c) : c[j] = r[i]
    /\ \A i, k \in 1..Len(r) :
          i < k => \E j, l \in 1..Len(c) :
                      j < l /\ c[j] = r[i] /\ c[l] = r[k]

\* what holds of the result r for the list c whatever max_points >= 3 is
SampleShape(r, c, m) ==
    /\ InOrder(r, c)
    /\ c # << >> => (r # << >> /\ r[1] = c[1] /\ r[Len(r)] = c[Len(c)])
    /\ Len(c) <= m => r = c

====
